---------------------------- MODULE Spec2Model ----------------------------
(***************************************************************************)
(* The speaker store of the voiceprint SDK: SpeakerManager (in-memory     *)
(* cache_ guarded by cache_mutex_, write-through to SqliteStore), the     *)
(* matcher used by identify / verify, and the C entry points that call    *)
(* them.  Host threads run the public calls step by step; the points at    *)
(* which a call takes or drops cache_mutex_ are separate steps.            *)
(*                                                                         *)
(* Floats are fixed-point integers: the float x is the integer x * Scale.  *)
(***************************************************************************)
EXTENDS Integers, Sequences, FiniteSets, TLC

\* ------------------------------------------------------------------ bounds
NumThreads == 2
NumIds == 2
Dim == 2
Scale == 100
MaxEnroll == 2
\* the longest audio given to the voice activity detector, in windows
MaxWindows == 26
\* the most embeddings given to the clustering
MaxPoints == 3
\* the most speech segments the detector finds in the audio given to diarize
MaxSegs == 3
\* the most windows of a detect call whose hidden state is followed
MaxSteps == 3

Threads == 1..NumThreads
Ids == 1..NumIds
\* the empty string "" as a speaker id
EmptyId == 0

\* threshold_ = 0.30f
DefaultThreshold == (30 * Scale) \div 100

\* --------------------------------------------------------------- arithmetic
\* division rounding toward zero
Div(a, b) == IF a < 0 THEN -((-a) \div b) ELSE a \div b
Sqrt(x) == CHOOSE r \in 0..(x + 1) : r * r <= x /\ (r + 1) * (r + 1) > x
Max2(a, b) == IF a > b THEN a ELSE b
Min2(a, b) == IF a < b THEN a ELSE b

RECURSIVE SumSq(_, _)
SumSq(vec, k) == IF k = 0 THEN 0 ELSE vec[k] * vec[k] + SumSq(vec, k - 1)

RECURSIVE Dot(_, _, _)
Dot(a, b, k) == IF k = 0 THEN 0 ELSE a[k] * b[k] + Dot(a, b, k - 1)

\* SpeakerManager::l2_normalize: divide by the norm unless it is (near) zero
l2_normalize(vec) ==
    LET norm == Sqrt(SumSq(vec, Len(vec)))
    IN  IF norm > 0 THEN [i \in 1..Len(vec) |-> Div(vec[i] * Scale, norm)] ELSE vec

\* SimilarityCalculator::cosine_similarity(const float*, const float*, int):
\* dot product over dim = size of the first vector, clamped to [-1, 1]
cosine_similarity_ptr(a, b, dim) ==
    Max2(-Scale, Min2(Scale, Div(Dot(a, b, dim), Scale)))

\* SimilarityCalculator::cosine_similarity(vector, vector): 0 on a size
\* mismatch or an empty vector
cosine_similarity(a, b) ==
    IF Len(a) # Len(b) \/ Len(a) = 0 THEN 0
    ELSE cosine_similarity_ptr(a, b, Len(a))

\* ------------------------------------------------------------------ audio
\* What the embedding pipeline makes of a caller's buffer.
Axis(k, s) == [i \in 1..Dim |-> IF i = k THEN s ELSE 0]

\* "null": pcm_data == nullptr or sample_count <= 0
\* "short": less than MIN_SPEECH_DURATION of speech; "bad": the model run fails
\* "a", "b", "n": audio of three different voices
Audio == {"null", "short", "bad", "a", "b", "n"}
GoodAudio == {"a", "b", "n"}

\* EmbeddingExtractor::extract: the embedding (l2-normalised) or {} with
\* last_error_ set
extract(audio) ==
    CASE audio = "a" -> [embedding |-> l2_normalize(Axis(1, Scale)), last_error |-> ""]
      [] audio = "b" -> [embedding |-> l2_normalize(Axis(Dim, Scale)), last_error |-> ""]
      [] audio = "n" -> [embedding |-> l2_normalize(Axis(1, -Scale)), last_error |-> ""]
      [] audio = "short" -> [embedding |-> <<>>, last_error |-> "Speech too short"]
      [] OTHER -> [embedding |-> <<>>, last_error |-> "Speaker model inference failed"]

\* std::string::find(needle) != npos on the messages extract can leave
Contains(msg, needle) ==
    \/ needle = "too short" /\ msg = "Speech too short"
    \/ needle = "No speech" /\ FALSE

\* a slip: the check for an empty embedding is lost
EmbeddingNeverEmpty(e) == FALSE
\* embedding.empty()
EmbeddingEmpty(e) == Len(e) = 0

\* enroll's translation of a failed extraction into an error code
EnrollExtractError(msg) ==
    IF Contains(msg, "too short") THEN "AUDIO_TOO_SHORT"
    ELSE IF Contains(msg, "No speech") THEN "AUDIO_INVALID"
    ELSE "INFERENCE"

\* ---------------------------------------------------------------- profiles
\* SpeakerProfile(id, emb, count); the key is the map's
SpeakerProfile(emb, count) == [embedding |-> emb, enroll_count |-> count]

\* the empty unordered_map / the empty table
EmptyMap == <<>>

Insert(map, id, val) == (id :> val) @@ map
\* a slip: nothing is erased
EraseNothing(map, id) == map
Erase(map, id) == [k \in (DOMAIN map) \ {id} |-> map[k]]

\* one pass of the loop of incremental_update: component i of the running mean
MeanComponent(old, new, n) == Div(old * n + new, n + 1)

\* a slip: the count is written back as it was read
NextCountStuck(n) == n
\* profile.enroll_count = n + 1
NextCount(n) == n + 1

\* SpeakerManager::incremental_update as a whole
incremental_update(profile, new_embedding) ==
    LET n == profile.enroll_count
        mean == [i \in 1..Len(profile.embedding) |->
                    MeanComponent(profile.embedding[i], new_embedding[i], n)]
    IN  SpeakerProfile(l2_normalize(mean), NextCount(n))

\* ------------------------------------------------------------- persistence
\* SqliteStore::save_speaker binds: the BLOB (one element per float32), the
\* dim column and the count column
Row(profile) ==
    [blob |-> profile.embedding,
     embedding_dim |-> Len(profile.embedding),
     enroll_count |-> profile.enroll_count]

\* SqliteStore::load_all_speakers for one row: resize(dim) zero-fills, memcpy
\* copies the BLOB over the front
LoadRow(row) ==
    SpeakerProfile([i \in 1..row.embedding_dim |->
                       IF i <= Len(row.blob) THEN row.blob[i] ELSE 0],
                   row.enroll_count)

\* SpeakerManager::load_cache_from_db
load_cache_from_db(table) == [k \in DOMAIN table |-> LoadRow(table[k])]

\* ------------------------------------------------------------------ state
VARIABLES
    initialized,    \* g_manager is set and SpeakerManager::initialized_
    cache,          \* SpeakerManager::cache_ : id -> SpeakerProfile
    db,             \* the speakers table : id -> row
    threshold,      \* SpeakerManager::threshold_
    writer,         \* the thread holding cache_mutex_ exclusively, or 0
    readers,        \* the threads holding cache_mutex_ shared
    pc,             \* where each host thread is inside its call
    call,           \* the call each thread is making: name, id, audio
    loc,            \* the call's local variables
    ret,            \* what the call returned: code, out_speaker_id, out_score
    expect,         \* history: per id, the profile after the enrolls so far,
                    \*   applied whole in the order they took the lock
    okCount,        \* history: per id, enrolls returned OK since id was absent
    pre,            \* history: the profile an enroll found when it took the lock
    seen,           \* history: the last profile an identify scan read
    sessionOk,      \* history: every enroll / remove of this session returned OK
    released,       \* history: cache_ as it was when release() was called
    chain,          \* history: an enroll, then remove, then verify of one id
    crashed,        \* undefined behaviour has brought the process down
    analyzer,       \* g_analyzer is set
    diarizer,       \* g_diarizer is set
    out_buf,        \* the caller's out_speaker_id buffer of each vp_identify
    last_error_,    \* SpeakerManager::last_error_, one string for all threads
    g_last_error,   \* the thread_local g_last_error of each thread
    vad,            \* the VoiceActivityDetector: initialized_, last_error_
    run,            \* one detect call: its arguments, locals and result
    clu,            \* one agglomerative_cluster call: arguments, locals, result
    dia,            \* one Diarizer::diarize call: arguments, locals, output
    ana,            \* the VoiceAnalyzer and its last analyze call
    hid             \* impl_->state of the shared detector, and each thread's
                    \*   detect call on it

vars == <<initialized, cache, db, threshold, writer, readers, pc, call, loc,
          ret, expect, okCount, pre, seen, sessionOk, released, chain,
          crashed, analyzer, diarizer, out_buf, last_error_, g_last_error,
          vad, run, clu, dia, ana, hid>>

shared == <<initialized, cache, db, threshold, writer, readers>>
history == <<expect, okCount, pre, seen, sessionOk, released, chain>>
\* what the calls on the speaker store leave alone
engines == <<analyzer, diarizer>>
errors == <<last_error_, g_last_error>>
detector == <<vad, run>>
pipeline == <<clu, dia, ana, hid>>
aside == <<crashed, engines, out_buf, errors, detector, pipeline>>

\* error texts: the fixed part and the speaker id appended to it
Text(text, id) == [text |-> text, id |-> id]
NoText == Text("", EmptyId)
\* "Speaker not found: " + speaker_id
NotFoundText(id) == Text("Speaker not found: ", id)
\* what is left of a string that was read or written while it was written
TornText == Text("torn", EmptyId)

\* a byte of the caller's buffer that nothing was written to
Unwritten == -1
\* '\0'
Nul == 0
\* no buffer passed
NoBuf == [size |-> 0, bytes |-> <<>>, written |-> {}]
\* a buffer of size bytes as the caller hands it over
FreshBuf(size) ==
    [size |-> size, bytes |-> [i \in 1..size |-> Unwritten], written |-> {}]

\* a detect call that has not started: its arguments, its locals, the list
\* it returned; failure is why the call could not do its work, if it could not
NoRun ==
    [status |-> "idle", failure |-> "", audio_size |-> 0, sample_rate |-> 0,
     offset |-> 0, in_speech |-> FALSE, speech_start |-> 0,
     silence_counter |-> 0, speech_confidence_sum |-> 0,
     speech_frame_count |-> 0, segments |-> <<>>]

\* an agglomerative_cluster call that has not started
NoClu ==
    [status |-> "idle", embeddings |-> <<>>, threshold |-> 0, max_clusters |-> 0,
     labels |-> <<>>, means |-> <<>>, counts |-> <<>>, active |-> <<>>,
     num_active |-> 0, result |-> [labels |-> <<>>, num_clusters |-> 0]]

\* a diarize call that has not started; out_count is the caller's *out_count
NoDia ==
    [status |-> "idle", code |-> "", sample_count |-> 0, segments |-> <<>>,
     max_segments |-> 0, i |-> 0, segs_with_emb |-> <<>>, out_segments |-> <<>>, out_count |-> -1]

\* a VoiceAnalyzer right after construction, no call made; files are the
\* model files that are in model_dir and load, init_flags the flags init was
\* called with so far
NoAna ==
    [initialized_ |-> FALSE, files |-> {}, init_flags |-> {}, models |-> {},
     loaded_features_ |-> {},
     api |-> "", code |-> "", feature_flags |-> {}, fbank_ok |-> FALSE,
     failed |-> {}, features_computed |-> {}]

\* A hidden state is named by the inference that returned it: <<t, k>> is the
\* state the model returned for window k of thread t's running call.
\* impl_->state after reset_states(): all zeros
ZeroState == <<0, 0>>
\* a state read while another thread was writing it
TornState == <<0, 1>>
\* no detect call on thread t: k is the window, fed the state the last
\* inference was given, own the state the call's last inference returned
NoDetect == [status |-> "idle", windows |-> 0, k |-> 0, fed |-> ZeroState,
             own |-> ZeroState, new_state |-> ZeroState]
NoHid == [state |-> ZeroState, th |-> [t \in Threads |-> NoDetect]]

\* the state outside the speaker store, right after the library is loaded
InitAside ==
    /\ crashed = FALSE
    /\ analyzer = FALSE
    /\ diarizer = FALSE
    /\ out_buf = [t \in Threads |-> NoBuf]
    /\ last_error_ = NoText
    /\ g_last_error = [t \in Threads |-> NoText]
    /\ vad = [initialized_ |-> FALSE, last_error_ |-> ""]
    /\ run = NoRun
    /\ clu = NoClu
    /\ dia = NoDia
    /\ ana = NoAna
    /\ hid = NoHid

NoProfile == SpeakerProfile(<<>>, 0)
NoCall == [name |-> "", id |-> EmptyId, audio |-> ""]
NoLoc == [embedding |-> <<>>, n |-> 0, i |-> 0, best_id |-> EmptyId,
          best_score |-> 0, scanned |-> {}, ref_embedding |-> <<>>]
NoRet == [code |-> "", out_id |-> EmptyId, out_score |-> 0, count |-> 0]
NoSeen == [id |-> EmptyId, profile |-> NoProfile, allowed |-> {}]
NoChain == [stage |-> "", t |-> 0, id |-> EmptyId, cnt0 |-> 0, was |-> FALSE]

\* cache_.size()
get_speaker_count(map) == Cardinality(DOMAIN map)

\* slips: a lock that does not wait for a writer
CanLockUniqueRacy == readers = {}
CanLockSharedRacy == TRUE
\* std::unique_lock lock(cache_mutex_) can be taken
CanLockUnique == writer = 0 /\ readers = {}
\* std::shared_lock lock(cache_mutex_) can be taken
CanLockShared == writer = 0

EnrollPcs == {"enroll_lock", "enroll_mean", "enroll_norm", "enroll_save", "enroll_new"}
UpdatePcs == {"enroll_mean", "enroll_norm", "enroll_save"}
RemovePcs == {"remove_lock", "remove_db"}

\* enrolls of id in flight
InFlight(id) ==
    Cardinality({w \in Threads : pc[w] \in EnrollPcs /\ call[w].id = id})
CountOf(id) == IF id \in DOMAIN cache THEN cache[id].enroll_count ELSE 0

\* the complete profiles of id there are to read right now: the one in the
\* map, or, while an enroll is rewriting it in place, the one before and the
\* one after that enroll
Allowed(id) ==
    LET ws == {w \in Threads : pc[w] \in UpdatePcs /\ call[w].id = id}
    IN  IF ws = {} THEN {cache[id]}
        ELSE UNION {{pre[w], incremental_update(pre[w], loc[w].embedding)} : w \in ws}

Init ==
    /\ initialized = FALSE
    /\ cache = EmptyMap
    /\ db = EmptyMap
    /\ threshold = DefaultThreshold
    /\ writer = 0
    /\ readers = {}
    /\ pc = [t \in Threads |-> "idle"]
    /\ call = [t \in Threads |-> NoCall]
    /\ loc = [t \in Threads |-> NoLoc]
    /\ ret = [t \in Threads |-> NoRet]
    /\ expect = EmptyMap
    /\ okCount = [id \in Ids |-> 0]
    /\ pre = [t \in Threads |-> NoProfile]
    /\ seen = [t \in Threads |-> NoSeen]
    /\ sessionOk = TRUE
    /\ released = EmptyMap
    /\ chain = NoChain
    /\ InitAside

\* a call ends: pc, the code and the outputs
Done(t, code, id, score) ==
    /\ pc' = [pc EXCEPT ![t] = "done"]
    /\ ret' = [ret EXCEPT ![t] = [code |-> code, out_id |-> id, out_score |-> score,
                                  count |-> 0]]

Goto(t, label) == pc' = [pc EXCEPT ![t] = label]

\* ------------------------------------------------------------- lifecycle
\* load_all_speakers: memcpy(embedding.data(), blob, blob_size) after
\* resize(dim) writes past the vector when the BLOB is longer than dim floats
Overflows(table) ==
    \E k \in DOMAIN table :
        /\ table[k].embedding_dim >= 0
        /\ Len(table[k].blob) > table[k].embedding_dim
\* resize(dim) with a negative dim throws std::length_error
Throws(table) == \E k \in DOMAIN table : table[k].embedding_dim < 0

\* no other thread is inside a call
Alone(t) == \A w \in Threads \ {t} : pc[w] \in {"idle", "done"}

\* the chain is of calls made with no other call in between: a call of another
\* thread ends it
ChainOnCall(t, next) == chain' = IF chain.t \notin {0, t} THEN NoChain ELSE next
BreakChain(t) == chain' = IF chain.t = t THEN NoChain ELSE chain

\* the process dies: no thread takes another step
Crash ==
    /\ crashed' = TRUE
    /\ pc' = [w \in Threads |-> "crashed"]

\* a slip: the sample count is not looked at
NoSamplesUnchecked(audio) == FALSE
\* !pcm_data || sample_count <= 0
NoSamples(audio) == audio = "null"

\* a slip: a call goes ahead without looking at g_manager
NotInitUnchecked == FALSE
\* if (!g_manager)
NotInit == ~initialized

\* a slip: vp_init does not look at g_manager before it builds a manager
AlreadyInitUnchecked == FALSE
\* if (g_manager)
AlreadyInit == initialized

\* vp_init -> SpeakerManager::init, under g_init_mutex: ALREADY_INIT when a
\* manager exists; otherwise the models load or not (ok), the table is opened
\* and read into cache_.  The call record keeps the argument: a model_dir
\* that holds the models or one that does not.  crash: what the overflowing memcpy of a row whose
\* BLOB is longer than its dim does to the process.
vp_init(t, ok, crash) ==
    /\ pc[t] = "idle"
    /\ call' = [call EXCEPT ![t] = [name |-> "init", id |-> EmptyId,
                                    audio |-> IF ok THEN "models" ELSE "no models"]]
    /\ IF AlreadyInit
       THEN /\ Done(t, "ALREADY_INIT", EmptyId, 0)
            /\ ChainOnCall(t, chain)
            /\ UNCHANGED <<initialized, cache, threshold, expect, okCount, sessionOk,
                           released, crashed>>
       ELSE IF ~ok
       THEN /\ Done(t, "MODEL_LOAD", EmptyId, 0)
            /\ UNCHANGED <<initialized, cache, threshold, expect, okCount, sessionOk,
                           released, crashed, chain>>
       ELSE IF Overflows(db) /\ crash
       THEN /\ Crash
            /\ UNCHANGED <<initialized, cache, threshold, expect, okCount, sessionOk,
                           released, ret, chain>>
       ELSE IF Throws(db)
       THEN /\ Done(t, "UNKNOWN", EmptyId, 0)
            /\ UNCHANGED <<initialized, cache, threshold, expect, okCount, sessionOk,
                           released, crashed, chain>>
       ELSE /\ Done(t, "OK", EmptyId, 0)
            /\ initialized' = TRUE
            /\ cache' = load_cache_from_db(db)
            /\ threshold' = DefaultThreshold
            /\ expect' = load_cache_from_db(db)
            /\ okCount' = [id \in Ids |->
                             IF id \in DOMAIN db THEN db[id].enroll_count ELSE 0]
            /\ sessionOk' = TRUE
            /\ released' = EmptyMap
            /\ chain' = NoChain
            /\ UNCHANGED crashed
    /\ UNCHANGED <<db, writer, readers, loc, pre, seen, engines, out_buf, errors, detector, pipeline>>

\* the threads other than t that are inside a SpeakerManager method
Inside(t) == {w \in Threads \ {t} : pc[w] \notin {"idle", "done", "dangling", "crashed"}}

\* g_manager.reset() destroys the manager under the threads inside it
Stranded(t) == Inside(t)

\* vp_release, under g_init_mutex only -> SpeakerManager::release: cache_
\* cleared under the lock, the store closed, then g_manager.reset() (threshold_
\* goes with the manager).  A thread that is inside a method of the manager
\* is left with a dangling this.
vp_release(t) ==
    /\ pc[t] = "idle"
    /\ call' = [call EXCEPT ![t] = [name |-> "release", id |-> EmptyId, audio |-> ""]]
    /\ ret' = [ret EXCEPT ![t] = NoRet]
    /\ analyzer' = FALSE
    /\ diarizer' = FALSE
    /\ IF initialized
       THEN /\ CanLockUnique
            /\ cache' = EmptyMap
            /\ initialized' = FALSE
            /\ threshold' = DefaultThreshold
            /\ released' = cache
            /\ expect' = EmptyMap
            /\ okCount' = [id \in Ids |-> 0]
            /\ chain' = NoChain
            /\ pc' = [w \in Threads |->
                        IF w = t THEN "done"
                        ELSE IF w \in Stranded(t) THEN "dangling"
                        ELSE pc[w]]
       ELSE /\ Goto(t, "done")
            /\ UNCHANGED <<cache, initialized, threshold, released, expect, okCount,
                           chain>>
    /\ UNCHANGED <<db, writer, readers, loc, pre, seen, sessionOk, crashed, out_buf,
                   errors, detector, pipeline>>

\* what a call left inside a destroyed manager can come to
DanglingOutcomes == {"crash", "NOT_INIT", "OK"}

\* a thread goes on inside a manager that vp_release destroyed: undefined
\* behaviour, which may kill the process or let the call return something
use_after_free(t, outcome) ==
    /\ pc[t] = "dangling"
    /\ IF outcome = "crash"
       THEN Crash /\ UNCHANGED ret
       ELSE Done(t, outcome, EmptyId, 0) /\ UNCHANGED crashed
    /\ UNCHANGED <<shared, call, loc, history, engines, out_buf, errors, detector, pipeline>>

\* a call returns to the host, which may make the next one
Return(t) ==
    /\ pc[t] = "done"
    /\ pc' = [pc EXCEPT ![t] = "idle"]
    /\ call' = [call EXCEPT ![t] = NoCall]
    /\ loc' = [loc EXCEPT ![t] = NoLoc]
    /\ ret' = [ret EXCEPT ![t] = NoRet]
    /\ seen' = [seen EXCEPT ![t] = NoSeen]
    /\ chain' = IF chain.t = t /\ call[t].name = "verify" THEN NoChain ELSE chain
    /\ UNCHANGED <<shared, expect, okCount, pre, sessionOk, released>>
    /\ out_buf' = [out_buf EXCEPT ![t] = NoBuf]
    /\ UNCHANGED <<crashed, engines, errors, detector, pipeline>>

\* ----------------------------------------------------------------- enroll
\* vp_enroll -> SpeakerManager::enroll, up to the extracted embedding
vp_enroll(t, id, audio) ==
    /\ pc[t] = "idle"
    /\ call' = [call EXCEPT ![t] = [name |-> "enroll", id |-> id, audio |-> audio]]
    /\ IF NotInit
       THEN /\ Done(t, "NOT_INIT", EmptyId, 0)
            /\ UNCHANGED <<loc, sessionOk, chain>>
       ELSE IF NoSamples(audio) \/ id = EmptyId
       THEN /\ Done(t, "INVALID_PARAM", EmptyId, 0)
            /\ sessionOk' = FALSE
            /\ chain' = NoChain
            /\ UNCHANGED loc
       ELSE IF EmbeddingEmpty(extract(audio).embedding)
       THEN /\ Done(t, EnrollExtractError(extract(audio).last_error), EmptyId, 0)
            /\ sessionOk' = FALSE
            /\ chain' = NoChain
            /\ UNCHANGED loc
       ELSE /\ CountOf(id) + InFlight(id) < MaxEnroll
            /\ Goto(t, "enroll_lock")
            /\ loc' = [loc EXCEPT ![t].embedding = extract(audio).embedding]
            /\ chain' = IF Alone(t)
                        THEN [stage |-> "e", t |-> t, id |-> id,
                              cnt0 |-> get_speaker_count(cache),
                              was |-> id \in DOMAIN cache]
                        ELSE NoChain
            /\ UNCHANGED <<ret, sessionOk>>
    /\ UNCHANGED <<shared, expect, okCount, pre, seen, released>>
    /\ UNCHANGED aside

\* std::unique_lock lock(cache_mutex_); auto it = cache_.find(speaker_id)
enroll_lock(t) ==
    LET id == call[t].id
        e == loc[t].embedding
    IN  /\ pc[t] = "enroll_lock"
        /\ CanLockUnique
        /\ writer' = t
        /\ IF id \in DOMAIN cache
           THEN /\ Goto(t, "enroll_mean")
                /\ loc' = [loc EXCEPT ![t].n = cache[id].enroll_count, ![t].i = 1]
                /\ pre' = [pre EXCEPT ![t] = cache[id]]
           ELSE /\ Goto(t, "enroll_new")
                /\ UNCHANGED <<loc, pre>>
        /\ expect' = IF id \in DOMAIN expect
                     THEN [expect EXCEPT ![id] = incremental_update(@, e)]
                     ELSE Insert(expect, id, SpeakerProfile(e, 1))
        /\ UNCHANGED <<initialized, cache, db, threshold, readers, call, ret,
                       okCount, seen, sessionOk, released, chain>>
        /\ UNCHANGED aside

\* incremental_update, one component of the mean per step, in place
enroll_mean(t) ==
    LET id == call[t].id
        i == loc[t].i
    IN  /\ pc[t] = "enroll_mean"
        /\ cache' = IF id \in DOMAIN cache /\ i <= Len(cache[id].embedding)
                    THEN [cache EXCEPT ![id].embedding[i] =
                             MeanComponent(@, loc[t].embedding[i], loc[t].n)]
                    ELSE cache
        /\ loc' = [loc EXCEPT ![t].i = i + 1]
        /\ Goto(t, IF i >= Dim THEN "enroll_norm" ELSE "enroll_mean")
        /\ UNCHANGED <<initialized, db, threshold, writer, readers, call, ret, history>>
        /\ UNCHANGED aside

\* incremental_update: enroll_count = n + 1, then l2_normalize
enroll_norm(t) ==
    LET id == call[t].id
    IN  /\ pc[t] = "enroll_norm"
        /\ cache' = IF id \in DOMAIN cache
                    THEN [cache EXCEPT ![id] =
                             SpeakerProfile(l2_normalize(@.embedding), NextCount(loc[t].n))]
                    ELSE cache
        /\ Goto(t, "enroll_save")
        /\ UNCHANGED <<initialized, db, threshold, writer, readers, call, loc, ret,
                       history>>
        /\ UNCHANGED aside

\* store_->save_speaker(it->second), whose result is not looked at; the lock
\* is dropped and OK returned
enroll_save(t, fail) ==
    LET id == call[t].id
    IN  /\ pc[t] = "enroll_save"
        /\ db' = IF fail \/ id \notin DOMAIN cache THEN db
                 ELSE Insert(db, id, Row(cache[id]))
        /\ writer' = 0
        /\ Done(t, "OK", EmptyId, 0)
        /\ okCount' = [okCount EXCEPT ![id] = @ + 1]
        /\ pre' = [pre EXCEPT ![t] = NoProfile]
        /\ chain' = IF chain.t = t THEN [chain EXCEPT !.stage = "E"] ELSE chain
        /\ UNCHANGED <<initialized, cache, threshold, readers, call, loc, expect,
                       seen, sessionOk, released>>
        /\ UNCHANGED aside

\* a new speaker: save_speaker(profile), result not looked at, then
\* cache_[speaker_id] = profile; the lock is dropped and OK returned
enroll_new(t, fail) ==
    LET id == call[t].id
        profile == SpeakerProfile(loc[t].embedding, 1)
    IN  /\ pc[t] = "enroll_new"
        /\ db' = IF fail THEN db ELSE Insert(db, id, Row(profile))
        /\ cache' = Insert(cache, id, profile)
        /\ writer' = 0
        /\ Done(t, "OK", EmptyId, 0)
        /\ okCount' = [okCount EXCEPT ![id] = @ + 1]
        /\ chain' = IF chain.t = t THEN [chain EXCEPT !.stage = "E"] ELSE chain
        /\ UNCHANGED <<initialized, threshold, readers, call, loc, expect, pre,
                       seen, sessionOk, released>>
        /\ UNCHANGED aside

\* ----------------------------------------------------------------- remove
vp_remove_speaker(t, id) ==
    /\ pc[t] = "idle"
    /\ call' = [call EXCEPT ![t] = [name |-> "remove", id |-> id, audio |-> ""]]
    /\ IF NotInit
       THEN /\ Done(t, "NOT_INIT", EmptyId, 0)
            /\ UNCHANGED chain
       ELSE /\ Goto(t, "remove_lock")
            /\ chain' = IF chain.t = t /\ chain.stage = "E" /\ chain.id = id
                        THEN [chain EXCEPT !.stage = "r"]
                        ELSE NoChain
            /\ UNCHANGED ret
    /\ UNCHANGED <<shared, loc, expect, okCount, pre, seen, sessionOk, released>>
    /\ UNCHANGED aside

\* a slip: the erase is not guarded by the result of find
remove_lock_unchecked(t) ==
    LET id == call[t].id
    IN  /\ pc[t] = "remove_lock"
        /\ CanLockUnique
        /\ cache' = Erase(cache, id)
        /\ expect' = Erase(expect, id)
        /\ okCount' = [okCount EXCEPT ![id] = 0]
        /\ Goto(t, "remove_db")
        /\ UNCHANGED <<ret, sessionOk, chain>>
        /\ UNCHANGED <<initialized, db, threshold, writer, readers, call, loc,
                       pre, seen, released>>
        /\ UNCHANGED aside

\* { unique_lock; find; not found -> SPEAKER_NOT_FOUND; cache_.erase(it); }
remove_lock(t) ==
    LET id == call[t].id
    IN  /\ pc[t] = "remove_lock"
        /\ CanLockUnique
        /\ IF id \notin DOMAIN cache
           THEN /\ Done(t, "SPEAKER_NOT_FOUND", EmptyId, 0)
                /\ sessionOk' = FALSE
                /\ BreakChain(t)
                /\ UNCHANGED <<cache, expect, okCount>>
           ELSE /\ cache' = Erase(cache, id)
                /\ expect' = Erase(expect, id)
                /\ okCount' = [okCount EXCEPT ![id] = 0]
                /\ Goto(t, "remove_db")
                /\ UNCHANGED <<ret, sessionOk, chain>>
        /\ UNCHANGED <<initialized, db, threshold, writer, readers, call, loc,
                       pre, seen, released>>
        /\ UNCHANGED aside

\* store_->remove_speaker(speaker_id), after the lock was dropped: false when
\* the statement fails or deletes no row
remove_db(t, fail) ==
    LET id == call[t].id
    IN  /\ pc[t] = "remove_db"
        /\ IF ~fail /\ id \in DOMAIN db
           THEN /\ db' = Erase(db, id)
                /\ Done(t, "OK", EmptyId, 0)
                /\ chain' = IF chain.t = t THEN [chain EXCEPT !.stage = "R"] ELSE chain
                /\ UNCHANGED sessionOk
           ELSE /\ Done(t, "DB_ERROR", EmptyId, 0)
                /\ sessionOk' = FALSE
                /\ BreakChain(t)
                /\ UNCHANGED db
        /\ UNCHANGED <<initialized, cache, threshold, writer, readers, call, loc,
                       expect, okCount, pre, seen, released>>
        /\ UNCHANGED aside

\* --------------------------------------------------------------- identify
\* the ids are the strings "a", "bb", ...: id k is k characters long
IdLen(id) == id
IdStr(id) == [i \in 1..IdLen(id) |-> id]

\* a slip: an id as long as the buffer is let through
FitsOffByOne(len, id_buf_size) == len <= id_buf_size
\* !(speaker_id.size() >= id_buf_size)
Fits(len, id_buf_size) == len < id_buf_size

\* std::strncpy(out, id, size - 1): the id, cut or padded with NULs to
\* size - 1 bytes; then out[size - 1] = NUL
CopyId(buf, id) ==
    [buf EXCEPT
       !.bytes = [i \in 1..buf.size |->
                    IF i <= IdLen(id) /\ i <= buf.size - 1 THEN IdStr(id)[i] ELSE Nul],
       !.written = 0..(buf.size - 1)]

\* out_speaker_id[0] = NUL
Blank(buf) == [buf EXCEPT !.bytes[1] = Nul, !.written = @ \cup {0}]

\* vp_identify -> SpeakerManager::identify, up to the extracted embedding;
\* vp_identify's score starts at 0.0f, best_score at -1.0f
vp_identify(t, audio, id_buf_size) ==
    /\ pc[t] = "idle"
    /\ call' = [call EXCEPT ![t] = [name |-> "identify", id |-> EmptyId, audio |-> audio]]
    /\ IF NotInit
       THEN /\ Done(t, "NOT_INIT", EmptyId, 0)
            /\ out_buf' = [out_buf EXCEPT ![t] = FreshBuf(Max2(0, id_buf_size))]
            /\ UNCHANGED loc
       ELSE IF NoSamples(audio) \/ id_buf_size <= 0
       THEN /\ Done(t, "INVALID_PARAM", EmptyId, 0)
            /\ out_buf' = [out_buf EXCEPT ![t] = FreshBuf(Max2(0, id_buf_size))]
            /\ UNCHANGED loc
       ELSE IF EmbeddingEmpty(extract(audio).embedding)
       THEN /\ Done(t, "INFERENCE", EmptyId, 0)
            /\ out_buf' = [out_buf EXCEPT ![t] = Blank(FreshBuf(id_buf_size))]
            /\ UNCHANGED loc
       ELSE /\ Goto(t, "identify_lock")
            /\ out_buf' = [out_buf EXCEPT ![t] = FreshBuf(id_buf_size)]
            /\ loc' = [loc EXCEPT ![t].embedding = extract(audio).embedding,
                                  ![t].best_id = EmptyId,
                                  ![t].best_score = -Scale]
            /\ UNCHANGED ret
    /\ ChainOnCall(t, chain)
    /\ UNCHANGED <<shared, expect, okCount, pre, seen, sessionOk, released>>
    /\ UNCHANGED <<crashed, engines, errors, detector, pipeline>>

y(t, audio) ==
    /\ pc[t] = "idle"
    /\ call' = [call EXCEPT ![t] = [name |-> "identify", id |-> EmptyId, audio |-> audio]]
    /\ IF NotInit
       THEN Done(t, "NOT_INIT", EmptyId, 0) /\ UNCHANGED loc
       ELSE IF NoSamples(audio)
       THEN Done(t, "INVALID_PARAM", EmptyId, 0) /\ UNCHANGED loc
       ELSE IF EmbeddingEmpty(extract(audio).embedding)
       THEN Done(t, "INFERENCE", EmptyId, 0) /\ UNCHANGED loc
       ELSE /\ Goto(t, "identify_lock")
            /\ loc' = [loc EXCEPT ![t].embedding = extract(audio).embedding,
                                  ![t].best_id = EmptyId,
                                  ![t].best_score = -Scale]
            /\ UNCHANGED ret
    /\ ChainOnCall(t, chain)
    /\ UNCHANGED <<shared, expect, okCount, pre, seen, sessionOk, released>>
    /\ UNCHANGED aside

\* std::shared_lock lock(cache_mutex_)
identify_lock(t) ==
    /\ pc[t] = "identify_lock"
    /\ CanLockShared
    /\ readers' = readers \cup {t}
    /\ Goto(t, "identify_scan")
    /\ UNCHANGED <<initialized, cache, db, threshold, writer, call, loc, ret, history>>
    /\ UNCHANGED aside

\* a slip: the comparison the wrong way round
BetterReversed(score, best_score) == score < best_score
\* score > best_score
Better(score, best_score) == score > best_score

\* one turn of the loop over cache_; the order of an unordered_map is any
identify_scan(t, id) ==
    LET score == cosine_similarity_ptr(loc[t].embedding, cache[id].embedding,
                                       Len(loc[t].embedding))
    IN  /\ pc[t] = "identify_scan"
        /\ id \in (DOMAIN cache) \ loc[t].scanned
        /\ Len(cache[id].embedding) >= Len(loc[t].embedding)
        /\ loc' = [loc EXCEPT
                     ![t].scanned = @ \cup {id},
                     ![t].best_score = IF Better(score, @) THEN score ELSE @,
                     ![t].best_id = IF Better(score, loc[t].best_score) THEN id ELSE @]
        /\ seen' = [seen EXCEPT ![t] = [id |-> id, profile |-> cache[id],
                                        allowed |-> Allowed(id)]]
        /\ UNCHANGED <<shared, pc, call, ret, expect, okCount, pre, sessionOk,
                       released, chain>>
        /\ UNCHANGED aside

\* a slip: a score equal to the threshold is refused
AcceptStrict(best_score, thr) == best_score > thr
\* best_score >= threshold_
Accept(best_score, thr) == best_score >= thr

\* the loop is over: the lock is dropped, out_score = best_score, and the id
\* is handed out on a match only (vp_identify writes "" otherwise), and only
\* when it fits the caller's buffer with its terminator
identify_end(t) ==
    /\ pc[t] = "identify_scan"
    /\ (DOMAIN cache) \ loc[t].scanned = {}
    /\ readers' = readers \ {t}
    /\ IF Accept(loc[t].best_score, threshold)
       THEN IF Fits(IdLen(loc[t].best_id), out_buf[t].size)
            THEN /\ Done(t, "OK", loc[t].best_id, loc[t].best_score)
                 /\ out_buf' = [out_buf EXCEPT ![t] = CopyId(@, loc[t].best_id)]
            ELSE /\ Done(t, "BUFFER_TOO_SMALL", EmptyId, loc[t].best_score)
                 /\ UNCHANGED out_buf
       ELSE /\ Done(t, "NO_MATCH", EmptyId, loc[t].best_score)
            /\ out_buf' = [out_buf EXCEPT ![t] = Blank(@)]
    /\ UNCHANGED <<initialized, cache, db, threshold, writer, call, loc, history>>
    /\ UNCHANGED <<crashed, engines, errors, detector, pipeline>>

nd(t) ==
    /\ pc[t] = "identify_scan"
    /\ (DOMAIN cache) \ loc[t].scanned = {}
    /\ readers' = readers \ {t}
    /\ IF Accept(loc[t].best_score, threshold)
       THEN Done(t, "OK", loc[t].best_id, loc[t].best_score)
       ELSE Done(t, "NO_MATCH", EmptyId, loc[t].best_score)
    /\ UNCHANGED <<initialized, cache, db, threshold, writer, call, loc, history>>
    /\ UNCHANGED aside

\* ----------------------------------------------------------------- verify
vp_verify(t, id, audio) ==
    /\ pc[t] = "idle"
    /\ call' = [call EXCEPT ![t] = [name |-> "verify", id |-> id, audio |-> audio]]
    /\ IF NotInit
       THEN Done(t, "NOT_INIT", EmptyId, 0) /\ UNCHANGED chain
       ELSE IF NoSamples(audio)
       THEN Done(t, "INVALID_PARAM", EmptyId, 0) /\ chain' = NoChain
       ELSE /\ Goto(t, "verify_lookup")
            /\ chain' = IF chain.t = t /\ chain.stage = "R" /\ chain.id = id
                        THEN [chain EXCEPT !.stage = "v"]
                        ELSE NoChain
            /\ UNCHANGED ret
    /\ UNCHANGED <<shared, loc, expect, okCount, pre, seen, sessionOk, released>>
    /\ UNCHANGED aside

\* { shared_lock; find; not found -> SPEAKER_NOT_FOUND; copy the embedding }
verify_lookup(t) ==
    LET id == call[t].id
    IN  /\ pc[t] = "verify_lookup"
        /\ CanLockShared
        /\ IF id \notin DOMAIN cache
           THEN Done(t, "SPEAKER_NOT_FOUND", EmptyId, 0) /\ UNCHANGED loc
           ELSE /\ loc' = [loc EXCEPT ![t].ref_embedding = cache[id].embedding]
                /\ Goto(t, "verify_extract")
                /\ UNCHANGED ret
        /\ UNCHANGED <<shared, call, history>>
        /\ UNCHANGED aside

\* a slip: verify gated on the threshold like identify
VerifyCodeGated(score, thr) == IF score >= thr THEN "OK" ELSE "NO_MATCH"
\* the verdict of verify: OK with the score, whatever the score
VerifyCode(score, thr) == "OK"

\* extract, then out_score = cosine_similarity(embedding, ref_embedding)
verify_extract(t) ==
    LET e == extract(call[t].audio).embedding
        score == cosine_similarity(e, loc[t].ref_embedding)
    IN  /\ pc[t] = "verify_extract"
        /\ IF EmbeddingEmpty(e)
           THEN Done(t, "INFERENCE", EmptyId, 0) /\ UNCHANGED loc
           ELSE /\ Done(t, VerifyCode(score, threshold), EmptyId, score)
                /\ loc' = [loc EXCEPT ![t].embedding = e]
        /\ UNCHANGED <<shared, call, history>>
        /\ UNCHANGED aside

\* ------------------------------------------------- count and threshold
\* vp_get_speaker_count: the size of cache_ under a shared lock
vp_get_speaker_count(t) ==
    /\ pc[t] = "idle"
    /\ call' = [call EXCEPT ![t] = [name |-> "count", id |-> EmptyId, audio |-> ""]]
    /\ initialized => CanLockShared
    /\ pc' = [pc EXCEPT ![t] = "done"]
    /\ ret' = [ret EXCEPT ![t] =
                 IF NotInit
                 THEN [code |-> "NOT_INIT", out_id |-> EmptyId, out_score |-> 0,
                       count |-> 0]
                 ELSE [code |-> "OK", out_id |-> EmptyId, out_score |-> 0,
                       count |-> get_speaker_count(cache)]]
    /\ ChainOnCall(t, chain)
    /\ UNCHANGED <<shared, loc, expect, okCount, pre, seen, sessionOk, released>>
    /\ UNCHANGED aside

\* the values a host passes to vp_set_threshold
ThresholdInputs == {-(Scale \div 2), 0, Scale, Scale + Scale \div 2}

\* SpeakerManager::set_threshold: clamp to [0, 1]
set_threshold(v) == Max2(0, Min2(Scale, v))

\* vp_set_threshold: out of [0, 1] is refused
vp_set_threshold(t, v) ==
    /\ pc[t] = "idle"
    /\ call' = [call EXCEPT ![t] = [name |-> "set_threshold", id |-> EmptyId, audio |-> ""]]
    /\ IF NotInit
       THEN Done(t, "NOT_INIT", EmptyId, 0) /\ UNCHANGED threshold
       ELSE IF v < 0 \/ v > Scale
       THEN Done(t, "INVALID_PARAM", EmptyId, 0) /\ UNCHANGED threshold
       ELSE Done(t, "OK", EmptyId, 0) /\ threshold' = set_threshold(v)
    /\ ChainOnCall(t, chain)
    /\ UNCHANGED <<initialized, cache, db, writer, readers, loc, expect, okCount,
                   pre, seen, sessionOk, released>>
    /\ UNCHANGED aside

\* ------------------------------------------------ analyzer and diarizer
\* vp_init_analyzer, under g_init_mutex: the analyzer must initialise, the
\* diarizer may fail to (it is then left unset)
vp_init_analyzer(t, ok_analyzer, ok_diarizer) ==
    /\ pc[t] = "idle"
    /\ call' = [call EXCEPT ![t] = [name |-> "init_analyzer", id |-> EmptyId, audio |-> ""]]
    /\ IF NotInit
       THEN Done(t, "NOT_INIT", EmptyId, 0) /\ UNCHANGED engines
       ELSE IF ~ok_analyzer
       THEN /\ Done(t, "MODEL_LOAD", EmptyId, 0)
            /\ analyzer' = FALSE
            /\ UNCHANGED diarizer
       ELSE /\ Done(t, "OK", EmptyId, 0)
            /\ analyzer' = TRUE
            /\ diarizer' = ok_diarizer
    /\ ChainOnCall(t, chain)
    /\ UNCHANGED <<shared, loc, expect, okCount, pre, seen, sessionOk, released, crashed,
                   out_buf, errors, detector, pipeline>>

\* what vp_analyze returns on a buffer that holds samples: analyze's VP_OK, or
\* VP_ERROR_UNKNOWN for an exception
AnalyzeOutcomes == {"OK", "UNKNOWN"}

\* vp_analyze: ensure_analyzer, the parameter check, then the analysis
vp_analyze(t, audio, outcome) ==
    /\ pc[t] = "idle"
    /\ call' = [call EXCEPT ![t] = [name |-> "analyze", id |-> EmptyId, audio |-> audio]]
    /\ IF NotInit \/ ~analyzer
       THEN Done(t, "NOT_INIT", EmptyId, 0)
       ELSE IF NoSamples(audio)
       THEN Done(t, "INVALID_PARAM", EmptyId, 0)
       ELSE Done(t, outcome, EmptyId, 0)
    /\ ChainOnCall(t, chain)
    /\ UNCHANGED <<shared, loc, expect, okCount, pre, seen, sessionOk, released, aside>>

\* what vp_diarize returns on a buffer that holds samples: diarize's VP_OK, or
\* VP_ERROR_UNKNOWN for an exception
DiarizeOutcomes == {"OK", "UNKNOWN"}

\* vp_diarize: ensure_diarizer, the parameter check, then the diarization
vp_diarize(t, audio, outcome) ==
    /\ pc[t] = "idle"
    /\ call' = [call EXCEPT ![t] = [name |-> "diarize", id |-> EmptyId, audio |-> audio]]
    /\ IF NotInit \/ ~diarizer
       THEN Done(t, "NOT_INIT", EmptyId, 0)
       ELSE IF NoSamples(audio)
       THEN Done(t, "INVALID_PARAM", EmptyId, 0)
       ELSE Done(t, outcome, EmptyId, 0)
    /\ ChainOnCall(t, chain)
    /\ UNCHANGED <<shared, loc, expect, okCount, pre, seen, sessionOk, released, aside>>

\* ------------------------------------------------------- last-error text
\* The error texts do not feed back into the store, and the steps above leave
\* them out.  Here is the path they take when a call fails inside the
\* manager, on the failure of verify for an id that is not enrolled: the
\* manager assigns its member last_error_ while it holds the shared lock, and
\* the entry point copies that member into the caller's thread_local string
\* after the manager has returned.  std::string is not atomic: an assignment
\* that overlaps another assignment or a read is a data race.

\* the threads other than t that are assigning last_error_
Assigning(t) == {w \in Threads \ {t} : pc[w] = "failing"}
\* what a racing access to the string can come to
RaceOutcomes == {"whole", "torn", "crash"}

\* vp_verify -> SpeakerManager::verify: shared_lock, find fails
verify_unknown(t, id) ==
    /\ pc[t] = "idle"
    /\ ~NotInit
    /\ CanLockShared
    /\ id \notin DOMAIN cache
    /\ call' = [call EXCEPT ![t] = [name |-> "verify", id |-> id, audio |-> "a"]]
    /\ readers' = readers \cup {t}
    /\ Goto(t, "failing")
    /\ chain' = NoChain
    /\ UNCHANGED <<initialized, cache, db, threshold, writer, loc, ret, expect, okCount,
                   pre, seen, sessionOk, released, crashed, engines, out_buf, errors, detector, pipeline>>

\* last_error_ = "Speaker not found: " + speaker_id; return SPEAKER_NOT_FOUND
\* (the lock is dropped)
write_last_error(t, outcome) ==
    /\ pc[t] = "failing"
    /\ Assigning(t) = {} => outcome = "whole"
    /\ readers' = readers \ {t}
    /\ IF outcome = "crash"
       THEN Crash /\ UNCHANGED <<last_error_, ret>>
       ELSE /\ last_error_' = IF outcome = "whole" THEN NotFoundText(call[t].id)
                               ELSE TornText
            /\ Goto(t, "failed")
            /\ ret' = [ret EXCEPT ![t].code = "SPEAKER_NOT_FOUND"]
            /\ UNCHANGED crashed
    /\ UNCHANGED <<initialized, cache, db, threshold, writer, call, loc, history,
                   engines, out_buf, g_last_error, detector, pipeline>>

\* g_manager->last_error(): the member, whoever assigned it last
ManagerText(t) == last_error_

\* if (result != VP_OK) vp::set_last_error(g_manager->last_error())
set_last_error(t, outcome) ==
    /\ pc[t] = "failed"
    /\ Assigning(t) = {} => outcome = "whole"
    /\ IF outcome = "crash"
       THEN Crash /\ UNCHANGED g_last_error
       ELSE /\ g_last_error' = [g_last_error EXCEPT ![t] =
                                   IF outcome = "whole" THEN ManagerText(t) ELSE TornText]
            /\ Goto(t, "done")
            /\ UNCHANGED crashed
    /\ UNCHANGED <<shared, call, loc, ret, history, engines, out_buf, last_error_, detector, pipeline>>

\* vp_get_last_error: the calling thread's own string
vp_get_last_error(t) == g_last_error[t]

\* a buffer that holds the longest id and its terminator
RoomyBuf == NumIds + 1

\* ------------------------------------------------- voice activity detector
\* Speech probabilities and confidences are in hundredths: 0.5f is 50.
WINDOW_SIZE == 512
THRESHOLD == 50
MIN_SILENCE_DURATION_MS == 300
MIN_SPEECH_DURATION_MS == 250

\* the default of detect's sample_rate, and what every caller in the SDK passes
SampleRates == {16000}
\* what one inference step can return as outputs[0]: just below the
\* threshold, and on it
Probs == {THRESHOLD - 1, THRESHOLD}
\* whole windows, and whole windows followed by a part of one
AudioSizes ==
    {n * WINDOW_SIZE + tail : n \in 0..MaxWindows, tail \in {0, WINDOW_SIZE - 1}}

min_silence_samples(sample_rate) == (MIN_SILENCE_DURATION_MS * sample_rate) \div 1000
min_speech_samples(sample_rate) == (MIN_SPEECH_DURATION_MS * sample_rate) \div 1000

SpeechSegment(start, end, confidence) ==
    [start_sample |-> start, end_sample |-> end, confidence |-> confidence]

\* speech_frame_count > 0 ? speech_confidence_sum / speech_frame_count : 0.0f
Confidence(sum, count) == IF count > 0 THEN sum \div count ELSE 0

\* segments after the candidate speech_start .. speech_end has been closed
Emit(r, speech_end) ==
    IF speech_end - r.speech_start >= min_speech_samples(r.sample_rate)
    THEN Append(r.segments,
                SpeechSegment(r.speech_start, speech_end,
                              Confidence(r.speech_confidence_sum,
                                         r.speech_frame_count)))
    ELSE r.segments

\* the body of the window loop after the inference returned prob
Window(r, prob) ==
    LET current_sample == r.offset
        next == r.offset + WINDOW_SIZE
    IN  IF prob >= THRESHOLD
        THEN [r EXCEPT
                 !.offset = next,
                 !.speech_start = IF r.in_speech THEN @ ELSE current_sample,
                 !.in_speech = TRUE,
                 !.silence_counter = 0,
                 !.speech_confidence_sum =
                     (IF r.in_speech THEN @ ELSE 0) + prob,
                 !.speech_frame_count = (IF r.in_speech THEN @ ELSE 0) + 1]
        ELSE IF ~r.in_speech
        THEN [r EXCEPT !.offset = next]
        ELSE LET silence == r.silence_counter + WINDOW_SIZE
             IN  IF silence >= min_silence_samples(r.sample_rate)
                 THEN [r EXCEPT
                          !.offset = next,
                          !.segments =
                              Emit(r, current_sample - silence + WINDOW_SIZE),
                          !.in_speech = FALSE,
                          !.silence_counter = 0]
                 ELSE [r EXCEPT !.offset = next, !.silence_counter = silence]

EndOfAudioWindow(audio_size) == ((audio_size \div WINDOW_SIZE) + 1) * WINDOW_SIZE
\* int speech_end = static_cast<int>(audio.size())
EndOfAudio(audio_size) == audio_size

\* "Handle last segment"
LastSegment(r) ==
    IF r.in_speech THEN Emit(r, EndOfAudio(r.audio_size)) ELSE r.segments

\* "Merge adjacent segments": merged so far, and segments[i..] still to come
RECURSIVE MergeFrom(_, _, _, _)
MergeFrom(merged, segments, i, min_silence) ==
    IF i > Len(segments) THEN merged
    ELSE LET back == merged[Len(merged)]
             gap == segments[i].start_sample - back.end_sample
         IN  IF gap < min_silence
             THEN MergeFrom(
                      [merged EXCEPT ![Len(merged)] =
                          SpeechSegment(back.start_sample,
                                        segments[i].end_sample,
                                        (back.confidence
                                           + segments[i].confidence) \div 2)],
                      segments, i + 1, min_silence)
             ELSE MergeFrom(Append(merged, segments[i]), segments, i + 1,
                            min_silence)

Merge(segments, min_silence) ==
    IF Len(segments) > 1
    THEN MergeFrom(<<segments[1]>>, segments, 2, min_silence)
    ELSE segments

Detecting == run.status = "loop"
MoreWindows == run.offset + WINDOW_SIZE <= run.audio_size

\* VoiceActivityDetector::init
vad_init(ok) ==
    /\ ~Detecting
    /\ ~vad.initialized_
    /\ vad' = IF ok THEN [vad EXCEPT !.initialized_ = TRUE]
              ELSE [vad EXCEPT !.last_error_ = "Failed to load VAD model: "]
    /\ UNCHANGED <<shared, pc, call, loc, ret, history, crashed, engines, out_buf,
                   errors, run, pipeline>>

\* VoiceActivityDetector::detect, up to the window loop
detect(audio_size, sample_rate) ==
    /\ ~Detecting
    /\ IF ~vad.initialized_
       THEN /\ vad' = [vad EXCEPT !.last_error_ = "VAD not initialized"]
            /\ run' = [NoRun EXCEPT !.status = "returned",
                                    !.failure = "not initialized",
                                    !.audio_size = audio_size,
                                    !.sample_rate = sample_rate]
       ELSE /\ run' = [NoRun EXCEPT !.status = "loop",
                                    !.audio_size = audio_size,
                                    !.sample_rate = sample_rate]
            /\ UNCHANGED vad
    /\ UNCHANGED <<shared, pc, call, loc, ret, history, crashed, engines, out_buf,
                   errors, pipeline>>

\* one window: session->Run returns, the state machine takes the probability
detect_window(prob) ==
    /\ Detecting
    /\ MoreWindows
    /\ run' = Window(run, prob)
    /\ UNCHANGED <<shared, pc, call, loc, ret, history, crashed, engines, out_buf,
                   errors, vad, pipeline>>

\* one window: session->Run throws Ort::Exception; detect has no handler, the
\* stack unwinds into the caller
inference_fails ==
    /\ Detecting
    /\ MoreWindows
    /\ run' = [NoRun EXCEPT !.status = "threw",
                            !.failure = "inference",
                            !.audio_size = run.audio_size,
                            !.sample_rate = run.sample_rate]
    /\ UNCHANGED <<shared, pc, call, loc, ret, history, crashed, engines, out_buf,
                   errors, vad, pipeline>>

\* after the loop: the last segment, the merge pass, return segments
detect_end ==
    /\ Detecting
    /\ ~MoreWindows
    /\ run' = [NoRun EXCEPT !.status = "returned",
                            !.audio_size = run.audio_size,
                            !.sample_rate = run.sample_rate,
                            !.segments =
                                Merge(LastSegment(run),
                                      min_silence_samples(run.sample_rate))]
    /\ UNCHANGED <<shared, pc, call, loc, ret, history, crashed, engines, out_buf,
                   errors, vad, pipeline>>


\* --------------------------------------------------------------- clustering
\* clustering::cosine_dist: 1 - the clamped dot product; 1 on a size mismatch
\* or an empty vector
cosine_dist(a, b) ==
    IF Len(a) # Len(b) \/ Len(a) = 0 THEN Scale
    ELSE Scale - Max2(-Scale, Min2(Scale, Div(Dot(a, b, Len(a)), Scale)))

\* a unit vector between the first and the last axis, nearer the first
Near == [i \in 1..Dim |-> IF i = 1 THEN (4 * Scale) \div 5
                           ELSE IF i = Dim THEN (3 * Scale) \div 5 ELSE 0]
\* the embeddings given to the clustering: l2-normalised vectors
Points == {Axis(k, Scale) : k \in 1..Dim} \cup {Axis(1, -Scale), Near}
PointLists == UNION {[1..n -> Points] : n \in 1..MaxPoints}
\* the diarizer's threshold_ = 0.45f, and the two ends of the range
ClusterThresholds == {0, (45 * Scale) \div 100, Scale}

\* the pairs i < j of active clusters, as the two nested loops visit them
ActivePairs(c) ==
    {p \in (1..Len(c.active)) \X (1..Len(c.active)) :
        p[1] < p[2] /\ c.active[p[1]] /\ c.active[p[2]]}

PairDist(c, p) == cosine_dist(c.means[p[1]], c.means[p[2]])

Before(p, q) == p[1] < q[1] \/ (p[1] = q[1] /\ p[2] <= q[2])

\* best_i, best_j: the first pair at the least distance (d < best_dist)
ClosestPair(c) ==
    CHOOSE p \in ActivePairs(c) :
        \A q \in ActivePairs(c) :
            \/ PairDist(c, p) < PairDist(c, q)
            \/ PairDist(c, p) = PairDist(c, q) /\ Before(p, q)

\* bool at_max = (max_clusters > 0 && num_active <= max_clusters)
at_max(c) == c.max_clusters > 0 /\ c.num_active <= c.max_clusters

\* the two break statements after the search
Stops(best_dist, threshold_, atmax) ==
    \/ best_dist > threshold_ /\ ~atmax
    \/ atmax /\ best_dist > threshold_

\* best_i < 0, or one of the breaks
Stopped(c) ==
    IF ActivePairs(c) = {} THEN TRUE
    ELSE Stops(PairDist(c, ClosestPair(c)), c.threshold, at_max(c))

\* "Merge cluster j into cluster i" and "Relabel"
MergeClosest(c) ==
    LET p == ClosestPair(c)
        best_i == p[1]
        best_j == p[2]
        ci == c.counts[best_i]
        cj == c.counts[best_j]
        total == ci + cj
        mean == [k \in 1..Len(c.means[best_i]) |->
                    Div(c.means[best_i][k] * ci + c.means[best_j][k] * cj, total)]
    IN  [c EXCEPT
            !.means[best_i] = l2_normalize(mean),
            !.counts[best_i] = total,
            !.active[best_j] = FALSE,
            !.num_active = @ - 1,
            !.labels = [k \in 1..Len(c.labels) |->
                           IF c.labels[k] = best_j - 1 THEN best_i - 1
                           ELSE c.labels[k]]]

\* a slip: every input gets the label its cluster had in the loop
CompactNot(labels) == [labels |-> labels, num_clusters |-> Cardinality({labels[i] : i \in 1..Len(labels)})]
\* "Compact labels to 0..K-1": ids in the order the labels first appear
Compact(labels) ==
    LET First(i) == \A k \in 1..(i - 1) : labels[k] # labels[i]
        Firsts(i) == {k \in 1..i : First(k)}
        Id(i) == Cardinality(Firsts(CHOOSE k \in 1..i : labels[k] = labels[i] /\ First(k))) - 1
    IN  [labels |-> [i \in 1..Len(labels) |-> Id(i)],
         num_clusters |-> Cardinality(Firsts(Len(labels)))]

\* the locals after "Each point starts in its own cluster"
ClusterStart(embeddings, threshold_, max_clusters) ==
    [NoClu EXCEPT
        !.status = "loop",
        !.embeddings = embeddings,
        !.threshold = threshold_,
        !.max_clusters = max_clusters,
        !.labels = [i \in 1..Len(embeddings) |-> i - 1],
        !.means = embeddings,
        !.counts = [i \in 1..Len(embeddings) |-> 1],
        !.active = [i \in 1..Len(embeddings) |-> TRUE],
        !.num_active = Len(embeddings)]

\* the ClusterResult a call returns
ClusterReturn(c, result) ==
    [NoClu EXCEPT
        !.status = "returned",
        !.embeddings = c.embeddings,
        !.threshold = c.threshold,
        !.max_clusters = c.max_clusters,
        !.num_active = c.num_active,
        !.result = result]

\* agglomerative_cluster, up to the merge loop; N == 1 returns at once
agglomerative_cluster(embeddings, threshold_, max_clusters) ==
    /\ clu.status = "idle"
    /\ clu' = IF Len(embeddings) = 1
              THEN ClusterReturn(
                       [ClusterStart(embeddings, threshold_, max_clusters)
                           EXCEPT !.num_active = 1],
                       [labels |-> <<0>>, num_clusters |-> 1])
              ELSE ClusterStart(embeddings, threshold_, max_clusters)
    /\ UNCHANGED <<shared, pc, call, loc, ret, history, crashed, engines, out_buf,
                   errors, detector, dia, ana, hid>>

\* one pass of while (true) that merges
cluster_merge ==
    /\ clu.status = "loop"
    /\ ~Stopped(clu)
    /\ clu' = MergeClosest(clu)
    /\ UNCHANGED <<shared, pc, call, loc, ret, history, crashed, engines, out_buf,
                   errors, detector, dia, ana, hid>>

\* the pass that breaks, and the compaction after the loop
cluster_end ==
    /\ clu.status = "loop"
    /\ Stopped(clu)
    /\ clu' = ClusterReturn(clu, Compact(clu.labels))
    /\ UNCHANGED <<shared, pc, call, loc, ret, history, crashed, engines, out_buf,
                   errors, detector, dia, ana, hid>>

\* ----------------------------------------------------------------- diarizer
\* constexpr int SR = 16000
SR == 16000

\* dur_sec < MIN_SEG_DURATION_SEC, with MIN_SEG_DURATION_SEC = 0.5f:
\* samples / SR < 1 / 2
SegTooShort(samples) == 2 * samples < SR

\* speech_duration < MIN_SPEECH_DURATION, with MIN_SPEECH_DURATION = 1.5f:
\* samples / 16000 < 3 / 2
SpeechTooShort(samples) == 2 * samples < 3 * SR

\* the lengths of the speech segments in the audio: 0.48 s, 0.512 s, 1.504 s
SegLengths == {15 * WINDOW_SIZE, 16 * WINDOW_SIZE, 47 * WINDOW_SIZE}

\* what detect returns for speech runs of these lengths, each followed by
\* ten windows of silence (the fewest that close a segment)
RECURSIVE Layout(_, _, _)
Layout(lengths, k, start) ==
    IF k > Len(lengths) THEN <<>>
    ELSE <<SpeechSegment(start, start + lengths[k], THRESHOLD)>>
         \o Layout(lengths, k + 1, start + lengths[k] + 10 * WINDOW_SIZE)

VadResults ==
    {Layout(lengths, 1, 0) :
        lengths \in UNION {[1..n -> SegLengths] : n \in 0..MaxSegs}}

\* the whole of agglomerative_cluster
RECURSIVE ClusterLoop(_)
ClusterLoop(c) ==
    IF Stopped(c) THEN Compact(c.labels) ELSE ClusterLoop(MergeClosest(c))

ClusterResult(embeddings, threshold_, max_clusters) ==
    IF Len(embeddings) = 1 THEN [labels |-> <<0>>, num_clusters |-> 1]
    ELSE ClusterLoop(ClusterStart(embeddings, threshold_, max_clusters))

\* EmbeddingExtractor::extract on the samples of one segment: the segment's
\* own speech is at most the segment, so less than 1.5 s of it is too short
ExtractSegment(samples, voice) ==
    IF SpeechTooShort(samples) THEN extract("short").embedding
    ELSE extract(voice).embedding

\* one pass of "Step 2": the segment is skipped or joins segs_with_emb
EmbedSegment(d, seg, voice) ==
    LET start == Max2(0, seg.start_sample)
        end == Min2(d.sample_count, seg.end_sample)
        emb == ExtractSegment(end - start, voice)
    IN  IF SegTooShort(seg.end_sample - seg.start_sample) THEN d.segs_with_emb
        ELSE IF end <= start THEN d.segs_with_emb
        ELSE IF EmbeddingEmpty(emb) THEN d.segs_with_emb
        ELSE Append(d.segs_with_emb,
                    [start_sample |-> start, end_sample |-> end,
                     confidence |-> seg.confidence, embedding |-> emb])

\* a slip: the capacity of out_segments is not looked at
RoomAlways(written, max_segments) == TRUE
\* written < max_segments
RoomLeft(written, max_segments) == written < max_segments

\* "Write output": segment i of segs_with_emb with its cluster's label, while
\* there is room in out_segments
RECURSIVE WriteOutput(_, _, _, _, _)
WriteOutput(segs, labels, i, out, max_segments) ==
    IF i > Len(segs) \/ ~RoomLeft(Len(out), max_segments) THEN out
    ELSE WriteOutput(segs, labels, i + 1,
                     Append(out, [start_sec |-> (segs[i].start_sample * Scale) \div SR,
                                  end_sec |-> (segs[i].end_sample * Scale) \div SR,
                                  confidence |-> segs[i].confidence,
                                  speaker_label |-> labels[i]]),
                     max_segments)

\* Diarizer::diarize on an initialised diarizer, up to "Step 2"; segments is
\* what the detector finds in the audio, fails: the detector's inference throws
diarize(segments, max_segments, fails) ==
    /\ dia.status = "idle"
    /\ dia' =
         IF max_segments <= 0
         THEN [NoDia EXCEPT !.status = "returned", !.code = "INVALID_PARAM",
                            !.max_segments = max_segments]
         ELSE IF fails
         THEN [NoDia EXCEPT !.status = "threw", !.max_segments = max_segments,
                            !.out_count = 0]
         ELSE IF segments = <<>>
         THEN [NoDia EXCEPT !.status = "returned", !.code = "OK",
                            !.max_segments = max_segments, !.out_count = 0]
         ELSE [NoDia EXCEPT !.status = "embed", !.segments = segments,
                            !.sample_count = segments[Len(segments)].end_sample,
                            !.max_segments = max_segments, !.i = 1,
                            !.out_count = 0]
    /\ UNCHANGED <<shared, pc, call, loc, ret, history, crashed, engines, out_buf,
                   errors, detector, clu, ana, hid>>

\* "Step 2", one segment
diarize_embed(voice) ==
    /\ dia.status = "embed"
    /\ dia.i <= Len(dia.segments)
    /\ dia' = [dia EXCEPT !.segs_with_emb = EmbedSegment(dia, dia.segments[dia.i], voice),
                          !.i = @ + 1]
    /\ UNCHANGED <<shared, pc, call, loc, ret, history, crashed, engines, out_buf,
                   errors, detector, clu, ana, hid>>

\* "Step 3" and "Step 4": cluster, write the output, return
diarize_write ==
    /\ dia.status = "embed"
    /\ dia.i > Len(dia.segments)
    /\ dia' =
         IF dia.segs_with_emb = <<>>
         THEN [dia EXCEPT !.status = "returned", !.code = "OK"]
         ELSE LET embeddings == [k \in 1..Len(dia.segs_with_emb) |->
                                    dia.segs_with_emb[k].embedding]
                  cluster_result ==
                      ClusterResult(embeddings, (45 * Scale) \div 100, 0)
                  out == WriteOutput(dia.segs_with_emb, cluster_result.labels,
                                     1, <<>>, dia.max_segments)
              IN  [dia EXCEPT !.status = "returned", !.code = "OK",
                              !.out_segments = out, !.out_count = Len(out)]
    /\ UNCHANGED <<shared, pc, call, loc, ret, history, crashed, engines, out_buf,
                   errors, detector, clu, ana, hid>>

\* ------------------------------------------------------------ voice analyzer
\* The feature bits, as a set of names.  Of the nine features these are kept:
\* two that share a model, one with a model of its own fed from the filter
\* bank, one with a model fed from the samples, and one computed without a
\* model.
Features == {"GENDER", "AGE", "EMOTION", "ANTISPOOF", "VOICE_FEATS"}
NeuralFeatures == {"GENDER", "AGE", "EMOTION", "ANTISPOOF"}
\* the features computed from the filter bank output
FbankFeatures == {"GENDER", "AGE", "EMOTION", "VOICE_FEATS"}
ModelFiles == {"gender_age.onnx", "emotion.onnx", "antispoof.onnx"}

ModelOf(f) ==
    CASE f \in {"GENDER", "AGE"} -> "gender_age.onnx"
      [] f = "EMOTION" -> "emotion.onnx"
      [] OTHER -> "antispoof.onnx"

\* the optional models VoiceAnalyzer::init tries to load for feature_flags
Wanted(feature_flags) == {ModelOf(f) : f \in feature_flags \cap NeuralFeatures}

\* VoiceAnalyzer::init under vp_init_analyzer: a model that is missing or
\* does not load is reset and its bits are not added
analyzer_init(feature_flags, files) ==
    /\ ana.initialized_ => files = ana.files
    /\ ana' = [NoAna EXCEPT
                 !.initialized_ = TRUE,
                 !.files = files,
                 !.init_flags = ana.init_flags \cup feature_flags,
                 !.models = (ana.models \ Wanted(feature_flags))
                                \cup (Wanted(feature_flags) \cap files),
                 !.loaded_features_ =
                     ana.loaded_features_
                       \cup {f \in NeuralFeatures :
                                ModelOf(f) \in Wanted(feature_flags) \cap files}
                       \cup (feature_flags \ NeuralFeatures)]
    /\ UNCHANGED <<shared, pc, call, loc, ret, history, crashed, engines, out_buf,
                   errors, detector, clu, dia, hid>>

\* the bits VoiceAnalyzer::analyze sets in computed
Computed(a, feature_flags, fbank_ok) ==
    (IF feature_flags \cap {"GENDER", "AGE"} # {} /\ fbank_ok
        /\ "gender_age.onnx" \in a.models
     THEN {"GENDER", "AGE"} ELSE {})
    \cup (IF "EMOTION" \in feature_flags /\ fbank_ok /\ "emotion.onnx" \in a.models
          THEN {"EMOTION"} ELSE {})
    \cup (IF "ANTISPOOF" \in feature_flags /\ "antispoof.onnx" \in a.models
          THEN {"ANTISPOOF"} ELSE {})
    \cup (IF "VOICE_FEATS" \in feature_flags /\ fbank_ok
          THEN {"VOICE_FEATS"} ELSE {})

\* the models analyze runs for feature_flags
Runs(a, feature_flags, fbank_ok) ==
    {m \in a.models :
        \E f \in feature_flags \cap NeuralFeatures :
            ModelOf(f) = m /\ (f \in FbankFeatures => fbank_ok)}

\* vp_analyze on an analyzer that is set up and a buffer that holds samples.
\* throws: the detector's inference throws; fbank: the filter bank gives
\* frames; failing: the models whose inference fails (their analyze_* step
\* returns VP_ERROR_INFERENCE, which analyze does not look at)
Analyze(a, api, feature_flags, throws, fbank, failing) ==
    LET fbank_ok == feature_flags \cap FbankFeatures # {} /\ fbank
    IN  IF ~a.initialized_
        THEN [a EXCEPT !.api = api, !.code = "NOT_INIT",
                       !.feature_flags = feature_flags, !.fbank_ok = FALSE,
                       !.failed = {}, !.features_computed = {}]
        ELSE IF throws
        THEN [a EXCEPT !.api = api, !.code = "UNKNOWN",
                       !.feature_flags = feature_flags, !.fbank_ok = FALSE,
                       !.failed = {}, !.features_computed = {}]
        ELSE [a EXCEPT !.api = api, !.code = "OK",
                       !.feature_flags = feature_flags, !.fbank_ok = fbank_ok,
                       !.failed = failing \cap Runs(a, feature_flags, fbank_ok),
                       !.features_computed = Computed(a, feature_flags, fbank_ok)]

\* (a call leaves the analyzer as it is, so one call is followed at a time)
analyze(feature_flags, throws, fbank, failing) ==
    /\ ana.api = ""
    /\ failing \subseteq ana.models
    /\ throws => ~fbank /\ failing = {}
    /\ ana' = Analyze(ana, "analyze", feature_flags, throws, fbank, failing)
    /\ UNCHANGED <<shared, pc, call, loc, ret, history, crashed, engines, out_buf,
                   errors, detector, clu, dia, hid>>

\* vp_get_emotion: vp_analyze with VP_FEATURE_EMOTION, its code passed on
vp_get_emotion(throws, fbank, failing) ==
    /\ ana.api = ""
    /\ failing \subseteq ana.models
    /\ throws => ~fbank /\ failing = {}
    /\ ana' = Analyze(ana, "get_emotion", {"EMOTION"}, throws, fbank, failing)
    /\ UNCHANGED <<shared, pc, call, loc, ret, history, crashed, engines, out_buf,
                   errors, detector, clu, dia, hid>>

\* ------------------------------------------------ the detector's hidden state
\* The embedding extractor of the speaker manager owns one detector; every
\* identify, verify and enroll runs detect on it (through filter_silence)
\* before it takes any lock, so detect calls of different threads overlap.
\* another thread is at its memcpy into impl_->state
Racing(t) == \E w \in Threads \ {t} : hid.th[w].status = "copy"

\* detect up to the loop: reset_states() zeroes impl_->state
reset_states(t, windows) ==
    /\ hid.th[t].status = "idle"
    /\ hid' = [hid EXCEPT !.state = ZeroState,
                          !.th[t] = [NoDetect EXCEPT !.status = "run",
                                                     !.windows = windows,
                                                     !.k = 1]]
    /\ UNCHANGED <<shared, pc, call, loc, ret, history, crashed, engines, out_buf,
                   errors, detector, clu, dia, ana>>

\* session->Run on window k: the state tensor is impl_->state itself, as it is
\* when the inference reads it; torn: another thread was writing it
session_Run(t, torn) ==
    LET d == hid.th[t]
        read == IF torn THEN TornState ELSE hid.state
    IN  /\ d.status = "run"
        /\ d.k <= d.windows
        /\ torn => Racing(t)
        /\ hid' = [hid EXCEPT !.th[t].status = "copy",
                              !.th[t].fed = read,
                              !.th[t].new_state = <<t, d.k>>]
        /\ UNCHANGED <<shared, pc, call, loc, ret, history, crashed, engines,
                       out_buf, errors, detector, clu, dia, ana>>

\* std::memcpy(impl_->state.data(), new_state, ...)
CopyState(old, new_state) == new_state

\* "Update hidden state", and on to the next window
memcpy_state(t) ==
    LET d == hid.th[t]
    IN  /\ d.status = "copy"
        /\ hid' = [hid EXCEPT !.state = CopyState(hid.state, d.new_state),
                              !.th[t].status = "run",
                              !.th[t].own = d.new_state,
                              !.th[t].k = d.k + 1]
        /\ UNCHANGED <<shared, pc, call, loc, ret, history, crashed, engines,
                       out_buf, errors, detector, clu, dia, ana>>

\* the loop is over, detect returns
detect_return(t) ==
    /\ hid.th[t].status = "run"
    /\ hid.th[t].k > hid.th[t].windows
    /\ hid' = [hid EXCEPT !.th[t] = NoDetect]
    /\ UNCHANGED <<shared, pc, call, loc, ret, history, crashed, engines, out_buf,
                   errors, detector, clu, dia, ana>>

\* ------------------------------------------------------------------- next
Next ==
    \/ \E t \in Threads :
        \/ \E ok \in BOOLEAN, crash \in BOOLEAN : vp_init(t, ok, crash)
        \/ vp_release(t)
        \/ Return(t)
        \/ \E id \in Ids \cup {EmptyId}, audio \in Audio : vp_enroll(t, id, audio)
        \/ enroll_lock(t)
        \/ enroll_mean(t)
        \/ enroll_norm(t)
        \/ \E fail \in BOOLEAN : enroll_save(t, fail)
        \/ \E fail \in BOOLEAN : enroll_new(t, fail)
        \/ \E id \in Ids : vp_remove_speaker(t, id)
        \/ remove_lock(t)
        \/ \E fail \in BOOLEAN : remove_db(t, fail)
        \/ \E audio \in Audio, size \in 0..RoomyBuf : vp_identify(t, audio, size)
        \/ identify_lock(t)
        \/ \E id \in Ids : identify_scan(t, id)
        \/ identify_end(t)
        \/ \E id \in Ids, audio \in Audio : vp_verify(t, id, audio)
        \/ verify_lookup(t)
        \/ verify_extract(t)
        \/ vp_get_speaker_count(t)
        \/ \E v \in ThresholdInputs : vp_set_threshold(t, v)
        \/ \E outcome \in DanglingOutcomes : use_after_free(t, outcome)
        \/ \E oka \in BOOLEAN, okd \in BOOLEAN : vp_init_analyzer(t, oka, okd)
        \/ \E audio \in Audio, o \in AnalyzeOutcomes : vp_analyze(t, audio, o)
        \/ \E audio \in Audio, o \in DiarizeOutcomes : vp_diarize(t, audio, o)
        \/ \E id \in Ids : verify_unknown(t, id)
        \/ \E outcome \in RaceOutcomes : write_last_error(t, outcome)
        \/ \E outcome \in RaceOutcomes : set_last_error(t, outcome)
    \/ \E ok \in BOOLEAN : vad_init(ok)
    \/ \E audio_size \in AudioSizes, sample_rate \in SampleRates :
           detect(audio_size, sample_rate)
    \/ \E prob \in Probs : detect_window(prob)
    \/ inference_fails
    \/ detect_end
    \/ \E embeddings \in PointLists, threshold_ \in ClusterThresholds,
          max_clusters \in 0..MaxPoints :
           agglomerative_cluster(embeddings, threshold_, max_clusters)
    \/ cluster_merge
    \/ cluster_end
    \/ \E segments \in VadResults, max_segments \in 0..(MaxSegs + 1),
          fails \in BOOLEAN : diarize(segments, max_segments, fails)
    \/ \E voice \in GoodAudio \cup {"bad"} : diarize_embed(voice)
    \/ diarize_write
    \/ \E feature_flags \in SUBSET Features, files \in SUBSET ModelFiles :
           analyzer_init(feature_flags, files)
    \/ \E feature_flags \in SUBSET Features, throws \in BOOLEAN, fbank \in BOOLEAN,
          failing \in SUBSET ModelFiles :
           analyze(feature_flags, throws, fbank, failing)
    \/ \E throws \in BOOLEAN, fbank \in BOOLEAN, failing \in SUBSET ModelFiles :
           vp_get_emotion(throws, fbank, failing)
    \/ \E t \in Threads :
        \/ \E windows \in 1..MaxSteps : reset_states(t, windows)
        \/ \E torn \in BOOLEAN : session_Run(t, torn)
        \/ memcpy_state(t)
        \/ detect_return(t)

Spec == Init /\ [][Next]_vars

\* ------------------------------------------------------- host workloads
\* One host thread that enrolls, removes, verifies, counts and restarts, over
\* a table whose writes can fail
NextSeq ==
    \/ \E t \in 1..1 :
        \/ \E ok \in BOOLEAN : vp_init(t, ok, FALSE)
        \/ vp_release(t)
        \/ Return(t)
        \/ \E id \in Ids \cup {EmptyId}, audio \in {"null", "short", "bad", "a", "b"} :
              vp_enroll(t, id, audio)
        \/ enroll_lock(t)
        \/ enroll_mean(t)
        \/ enroll_norm(t)
        \/ \E fail \in BOOLEAN : enroll_save(t, fail)
        \/ \E fail \in BOOLEAN : enroll_new(t, fail)
        \/ \E id \in Ids : vp_remove_speaker(t, id)
        \/ remove_lock(t)
        \/ \E fail \in BOOLEAN : remove_db(t, fail)
        \/ \E id \in Ids, audio \in {"null", "bad", "a"} : vp_verify(t, id, audio)
        \/ verify_lookup(t)
        \/ verify_extract(t)
        \/ vp_get_speaker_count(t)

SpecSeq == Init /\ [][NextSeq]_vars

\* Threads that enroll and remove at the same time
NextWriters ==
    \/ vp_init(1, TRUE, FALSE)
    \/ \E t \in Threads :
        \/ Return(t)
        \/ \E id \in Ids, audio \in {"short", "bad", "a", "b"} : vp_enroll(t, id, audio)
        \/ enroll_lock(t)
        \/ enroll_mean(t)
        \/ enroll_norm(t)
        \/ enroll_save(t, FALSE)
        \/ enroll_new(t, FALSE)
        \/ \E id \in Ids : vp_remove_speaker(t, id)
        \/ remove_lock(t)
        \/ \E fail \in BOOLEAN : remove_db(t, fail)

SpecWriters == Init /\ [][NextWriters]_vars

\* Threads that enroll and remove at the same time over a table that works
NextRace ==
    \/ vp_init(1, TRUE, FALSE)
    \/ \E t \in Threads :
        \/ Return(t)
        \/ \E id \in Ids, audio \in {"a", "b"} : vp_enroll(t, id, audio)
        \/ enroll_lock(t)
        \/ enroll_mean(t)
        \/ enroll_norm(t)
        \/ enroll_save(t, FALSE)
        \/ enroll_new(t, FALSE)
        \/ \E id \in Ids : vp_remove_speaker(t, id)
        \/ remove_lock(t)
        \/ remove_db(t, FALSE)

SpecRace == Init /\ [][NextRace]_vars

\* Threads that enroll while others identify under a moving threshold
NextMatch ==
    \/ vp_init(1, TRUE, FALSE)
    \/ \E t \in Threads :
        \/ Return(t)
        \/ \E id \in Ids, audio \in {"a", "b"} : vp_enroll(t, id, audio)
        \/ enroll_lock(t)
        \/ enroll_mean(t)
        \/ enroll_norm(t)
        \/ enroll_save(t, FALSE)
        \/ enroll_new(t, FALSE)
        \/ \E audio \in {"null", "bad", "a", "n"} : vp_identify(t, audio, RoomyBuf)
        \/ identify_lock(t)
        \/ \E id \in Ids : identify_scan(t, id)
        \/ identify_end(t)
        \/ \E v \in ThresholdInputs : vp_set_threshold(t, v)

SpecMatch == Init /\ [][NextMatch]_vars

\* One host thread that starts the SDK on a database file it finds, some of
\* whose rows declare a dim other than the length of their BLOB
DeclaredDims == {-1, Dim - 1, Dim, Dim + 1}
FileRows ==
    {[blob |-> l2_normalize(Axis(1, Scale)), embedding_dim |-> d, enroll_count |-> 1] :
        d \in DeclaredDims}
Tables == UNION {[S -> FileRows] : S \in SUBSET Ids}

InitLoad ==
    /\ initialized = FALSE
    /\ cache = EmptyMap
    /\ db \in Tables
    /\ threshold = DefaultThreshold
    /\ writer = 0
    /\ readers = {}
    /\ pc = [t \in Threads |-> "idle"]
    /\ call = [t \in Threads |-> NoCall]
    /\ loc = [t \in Threads |-> NoLoc]
    /\ ret = [t \in Threads |-> NoRet]
    /\ expect = EmptyMap
    /\ okCount = [id \in Ids |-> 0]
    /\ pre = [t \in Threads |-> NoProfile]
    /\ seen = [t \in Threads |-> NoSeen]
    /\ sessionOk = TRUE
    /\ released = EmptyMap
    /\ chain = NoChain
    /\ InitAside

NextLoad ==
    \E t \in 1..1 :
        \/ \E ok \in BOOLEAN, crash \in BOOLEAN : vp_init(t, ok, crash)
        \/ vp_release(t)
        \/ Return(t)
        \/ \E id \in Ids : vp_verify(t, id, "a")
        \/ verify_lookup(t)
        \/ verify_extract(t)
        \/ vp_get_speaker_count(t)

SpecLoad == InitLoad /\ [][NextLoad]_vars

\* One host thread that makes every call in every state of the lifecycle
NextLife ==
    \E t \in 1..1 :
        \/ \E ok \in BOOLEAN : vp_init(t, ok, FALSE)
        \/ vp_release(t)
        \/ Return(t)
        \/ \E id \in Ids, audio \in {"null", "a", "b"} : vp_enroll(t, id, audio)
        \/ enroll_lock(t)
        \/ enroll_mean(t)
        \/ enroll_norm(t)
        \/ enroll_save(t, FALSE)
        \/ enroll_new(t, FALSE)
        \/ \E id \in Ids : vp_remove_speaker(t, id)
        \/ remove_lock(t)
        \/ remove_db(t, FALSE)
        \/ \E audio \in {"null", "a"} : vp_identify(t, audio, RoomyBuf)
        \/ identify_lock(t)
        \/ \E id \in Ids : identify_scan(t, id)
        \/ identify_end(t)
        \/ \E id \in Ids, audio \in {"null", "a"} : vp_verify(t, id, audio)
        \/ verify_lookup(t)
        \/ verify_extract(t)
        \/ vp_get_speaker_count(t)

SpecLife == Init /\ [][NextLife]_vars

\* A host thread that enrolls and verifies while another restarts the SDK
NextRelease ==
    \/ \E t \in 1..1 :
        \/ vp_init(t, TRUE, FALSE)
        \/ vp_release(t)
    \/ \E t \in Threads :
        \/ Return(t)
        \/ \E id \in Ids : vp_enroll(t, id, "a")
        \/ enroll_lock(t)
        \/ enroll_mean(t)
        \/ enroll_norm(t)
        \/ enroll_save(t, FALSE)
        \/ enroll_new(t, FALSE)
        \/ \E id \in Ids : vp_verify(t, id, "a")
        \/ verify_lookup(t)
        \/ verify_extract(t)
        \/ \E outcome \in DanglingOutcomes : use_after_free(t, outcome)

SpecRelease == Init /\ [][NextRelease]_vars

\* One host thread that passes buffers with and without samples to every call
\* that takes audio
NextParams ==
    \E t \in 1..1 :
        \/ \E ok \in BOOLEAN : vp_init(t, ok, FALSE)
        \/ \E oka \in BOOLEAN, okd \in BOOLEAN : vp_init_analyzer(t, oka, okd)
        \/ vp_release(t)
        \/ Return(t)
        \/ \E id \in Ids \cup {EmptyId}, audio \in {"null", "a"} : vp_enroll(t, id, audio)
        \/ enroll_lock(t)
        \/ enroll_mean(t)
        \/ enroll_norm(t)
        \/ enroll_save(t, FALSE)
        \/ enroll_new(t, FALSE)
        \/ \E audio \in {"null", "a"} : vp_identify(t, audio, RoomyBuf)
        \/ identify_lock(t)
        \/ \E id \in Ids : identify_scan(t, id)
        \/ identify_end(t)
        \/ \E id \in Ids, audio \in {"null", "a"} : vp_verify(t, id, audio)
        \/ verify_lookup(t)
        \/ verify_extract(t)
        \/ \E audio \in {"null", "a"}, o \in AnalyzeOutcomes : vp_analyze(t, audio, o)
        \/ \E audio \in {"null", "a"}, o \in DiarizeOutcomes : vp_diarize(t, audio, o)

SpecParams == Init /\ [][NextParams]_vars

\* One host thread that enrolls speakers and identifies into buffers of every
\* size
NextBuffer ==
    \E t \in 1..1 :
        \/ vp_init(t, TRUE, FALSE)
        \/ Return(t)
        \/ \E id \in Ids, audio \in {"a", "b"} : vp_enroll(t, id, audio)
        \/ enroll_lock(t)
        \/ enroll_mean(t)
        \/ enroll_norm(t)
        \/ enroll_save(t, FALSE)
        \/ enroll_new(t, FALSE)
        \/ \E audio \in {"null", "bad", "a", "b", "n"}, size \in 0..RoomyBuf :
              vp_identify(t, audio, size)
        \/ identify_lock(t)
        \/ \E id \in Ids : identify_scan(t, id)
        \/ identify_end(t)

SpecBuffer == Init /\ [][NextBuffer]_vars

\* Threads whose verify calls fail at the same time
NextErrors ==
    \/ vp_init(1, TRUE, FALSE)
    \/ \E t \in Threads :
        \/ Return(t)
        \/ \E id \in Ids : verify_unknown(t, id)
        \/ \E outcome \in RaceOutcomes : write_last_error(t, outcome)
        \/ \E outcome \in RaceOutcomes : set_last_error(t, outcome)

SpecErrors == Init /\ [][NextErrors]_vars

\* One voice activity detector, set up or not, and detect calls on audio of
\* every length up to MaxWindows windows; each inference step returns any
\* probability or fails.
NextVad ==
    \/ \E ok \in BOOLEAN : vad_init(ok)
    \/ \E audio_size \in AudioSizes, sample_rate \in SampleRates :
           detect(audio_size, sample_rate)
    \/ \E prob \in Probs : detect_window(prob)
    \/ inference_fails
    \/ detect_end

SpecVad == Init /\ [][NextVad]_vars

\* Clustering calls on every list of up to MaxPoints embeddings.
NextCluster ==
    \/ \E embeddings \in PointLists, threshold_ \in ClusterThresholds,
          max_clusters \in 0..MaxPoints :
           agglomerative_cluster(embeddings, threshold_, max_clusters)
    \/ cluster_merge
    \/ cluster_end

SpecCluster == Init /\ [][NextCluster]_vars

\* Diarize calls on audio with up to MaxSegs speech segments; each segment is
\* one of three voices, or its embedding fails.
NextDiarize ==
    \/ \E segments \in VadResults, max_segments \in 0..(MaxSegs + 1),
          fails \in BOOLEAN : diarize(segments, max_segments, fails)
    \/ \E voice \in GoodAudio \cup {"bad"} : diarize_embed(voice)
    \/ diarize_write

SpecDiarize == Init /\ [][NextDiarize]_vars

\* One analyzer, set up with any flags over any set of model files that
\* load, and analyze calls with any flags.
NextAnalyze ==
    \/ \E feature_flags \in SUBSET Features, files \in SUBSET ModelFiles :
           analyzer_init(feature_flags, files)
    \/ \E feature_flags \in SUBSET Features, throws \in BOOLEAN, fbank \in BOOLEAN,
          failing \in SUBSET ModelFiles :
           analyze(feature_flags, throws, fbank, failing)
    \/ \E throws \in BOOLEAN, fbank \in BOOLEAN, failing \in SUBSET ModelFiles :
           vp_get_emotion(throws, fbank, failing)

SpecAnalyze == Init /\ [][NextAnalyze]_vars

\* Threads whose identify or verify calls run detect on the shared detector
NextHidden ==
    \E t \in Threads :
        \/ \E windows \in 1..MaxSteps : reset_states(t, windows)
        \/ \E torn \in BOOLEAN : session_Run(t, torn)
        \/ memcpy_state(t)
        \/ detect_return(t)

SpecHidden == Init /\ [][NextHidden]_vars

\* ================================================================= claims
\* thread t takes this step
Acts(t) == pc'[t] # pc[t] \/ loc'[t] # loc[t]

\* no enroll is rewriting or inserting the profile of id
Settled(id) ==
    \A w \in Threads : ~(pc[w] \in UpdatePcs \cup {"enroll_new"} /\ call[w].id = id)

\* the scores of a query embedding against every profile of the map
Scores(e, map) ==
    {cosine_similarity_ptr(e, map[k].embedding, Len(e)) : k \in DOMAIN map}
MaxOf(S) == CHOOSE m \in S : \A x \in S : x <= m

\* C1: every profile an identify scan reads is a complete one: the profile as
\* it was before a concurrent enroll of that id or as it is after it, embedding
\* and enroll_count together, never a half-written one.
C1_NoTornRead ==
    \A t \in Threads :
        seen[t].id # EmptyId => seen[t].profile \in seen[t].allowed

\* C1 witness: a scan has read the profile of an id while an enroll of that
\* same, already enrolled id waits for the lock.
C1_Witness ==
    \E t \in Threads, w \in Threads :
        /\ t # w
        /\ pc[t] = "identify_scan"
        /\ pc[w] = "enroll_lock"
        /\ seen[t].id = call[w].id
        /\ call[w].id \in DOMAIN cache

\* C2: once the concurrent enrolls of an id are through, its profile is the one
\* obtained by applying their incremental updates whole, one after another, in
\* the order in which they took the lock: no update is lost.
C2_SerialOrder ==
    \A id \in Ids :
        Settled(id) =>
            /\ (id \in DOMAIN cache) = (id \in DOMAIN expect)
            /\ id \in DOMAIN cache => cache[id] = expect[id]

\* C2 witness: two enrolls of one id are in flight at the same time with
\* different audio: one holds the lock and is about to insert the profile, the
\* other waits for the lock and will update it.
C2_Witness ==
    \E t \in Threads, w \in Threads :
        /\ t # w
        /\ pc[t] = "enroll_new" /\ pc[w] = "enroll_lock"
        /\ call[t].id = call[w].id
        /\ call[t].audio # call[w].audio
        /\ writer = t

\* C6: the enroll_count of every profile in the map is the number of enrolls
\* of that id that returned OK since the id was last absent, so at least 1.
C6_EnrollCount ==
    \A id \in DOMAIN cache :
        Settled(id) =>
            /\ cache[id].enroll_count = okCount[id]
            /\ cache[id].enroll_count >= 1

\* C6 witness: an id enrolled twice, at rest.
C6_Witness ==
    /\ \A t \in Threads : pc[t] = "idle"
    /\ \E id \in DOMAIN cache : cache[id].enroll_count = 2 /\ okCount[id] = 2

C3_EnrollPersisted ==
    \A t \in Threads :
        (pc[t] = "done" /\ call[t].name = "enroll" /\ ret[t].code = "OK")
        => /\ call[t].id \in DOMAIN cache
           /\ call[t].id \in DOMAIN db
           /\ LoadRow(db[call[t].id]) = cache[call[t].id]

\* C4 (as claimed): when every enroll and remove of a session returned OK,
\* re-initialising after release gives back the map as it was at the release:
\* the same ids, each with the same embedding and enroll_count.
C4_RestartRoundTrip ==
    [][(~initialized /\ initialized' /\ sessionOk) => cache' = released]_vars

\* C5 (as claimed): after enroll(id) and then remove(id) both succeeded,
\* count() is what it was before the enroll, whatever the store held before,
\* and a following verify(id) returns SPEAKER_NOT_FOUND.
C5_Original ==
    /\ chain.stage \in {"R", "v"} => get_speaker_count(cache) = chain.cnt0
    /\ (chain.stage = "v" /\ pc[chain.t] = "done")
         => ret[chain.t].code = "SPEAKER_NOT_FOUND"

\* C5 (amended): for an id that was absent before the enroll, after enroll(id)
\* and then remove(id) both succeeded with no other call in between, count()
\* is what it was before the enroll; and for any id a following verify(id)
\* with a non-empty buffer returns SPEAKER_NOT_FOUND. For an id that was
\* already enrolled, count() is one less than before the enroll.
C5_EnrollRemove ==
    /\ (chain.stage \in {"R", "v"} /\ ~chain.was)
         => get_speaker_count(cache) = chain.cnt0
    /\ (chain.stage \in {"R", "v"} /\ chain.was)
         => get_speaker_count(cache) = chain.cnt0 - 1
    /\ (chain.stage = "v" /\ pc[chain.t] = "done")
         => ret[chain.t].code = "SPEAKER_NOT_FOUND"

\* C5 witness: a new id was enrolled beside an existing speaker, removed
\* again, and the verify that followed has returned.
C5_Witness ==
    /\ chain.stage = "v"
    /\ ~chain.was
    /\ chain.cnt0 = 1
    /\ pc[chain.t] = "done"
    /\ ret[chain.t].code = "SPEAKER_NOT_FOUND"
    /\ get_speaker_count(cache) = 1

\* C10: verify of an enrolled id with audio that yields an embedding returns
\* OK and the similarity score, whatever the score is relative to the
\* threshold; no verify returns NO_MATCH.
C10_VerifyAlwaysReports ==
    \A t \in 1..1 :
        (pc[t] = "done" /\ call[t].name = "verify")
        => /\ ret[t].code # "NO_MATCH"
           /\ (initialized /\ call[t].id \in DOMAIN cache /\ call[t].audio \in GoodAudio)
                => /\ ret[t].code = "OK"
                   /\ ret[t].out_score =
                        cosine_similarity(extract(call[t].audio).embedding,
                                          cache[call[t].id].embedding)

\* C10 witness: a verify has returned OK with a score below the threshold.
C10_Witness ==
    \E t \in Threads :
        /\ pc[t] = "done"
        /\ call[t].name = "verify"
        /\ ret[t].code = "OK"
        /\ ret[t].out_score < threshold

\* thread t ends the scan of identify in this step
EndsScan(t) == pc[t] = "identify_scan" /\ pc'[t] = "done"

\* C8: given a query embedding, identify returns OK exactly when the highest
\* similarity over all stored profiles is at or above the threshold, the id it
\* returns is then a profile with that highest score, and in every other case,
\* the empty store included, it returns NO_MATCH.
C8_IdentifyDecision ==
    [][\A t \in Threads :
          EndsScan(t) =>
            LET S == Scores(loc[t].embedding, cache)
                hit == S # {} /\ MaxOf(S) >= threshold
            IN  /\ ret'[t].code = IF hit THEN "OK" ELSE "NO_MATCH"
                /\ hit => /\ ret'[t].out_id \in DOMAIN cache
                          /\ cosine_similarity_ptr(loc[t].embedding,
                                                   cache[ret'[t].out_id].embedding,
                                                   Len(loc[t].embedding)) = MaxOf(S)
                          /\ ret'[t].out_score = MaxOf(S)]_vars

\* C8 witness: an identify over two profiles has returned OK with a score
\* exactly at the threshold.
C8_Witness ==
    \E t \in Threads :
        /\ pc[t] = "done"
        /\ call[t].name = "identify"
        /\ ret[t].code = "OK"
        /\ Cardinality(loc[t].scanned) = 2
        /\ ret[t].out_score = threshold

\* C9 (as claimed): when identify scans a non-empty store and no profile
\* reaches the threshold, it returns NO_MATCH with the id and the score of the
\* best-scoring profile, not an empty id.
C9_Original ==
    \A t \in Threads :
        (pc[t] = "done" /\ call[t].name = "identify" /\ ret[t].code = "NO_MATCH"
           /\ loc[t].scanned # {})
        => /\ ret[t].out_id # EmptyId
           /\ ret[t].out_score = loc[t].best_score

\* C9 (amended): when identify scans a non-empty store and no profile reaches
\* the threshold, it returns NO_MATCH with the score of the best-scoring
\* profile and with an empty id.
C9_CloseMiss ==
    [][\A t \in Threads :
          (EndsScan(t) /\ ret'[t].code = "NO_MATCH" /\ cache # EmptyMap)
          => /\ ret'[t].out_score = MaxOf(Scores(loc[t].embedding, cache))
             /\ ret'[t].out_id = EmptyId]_vars

\* C9 witness: an identify over two profiles has returned NO_MATCH with a
\* score above the lowest possible one.
C9_Witness ==
    \E t \in Threads :
        /\ pc[t] = "done"
        /\ call[t].name = "identify"
        /\ ret[t].code = "NO_MATCH"
        /\ Cardinality(loc[t].scanned) = 2
        /\ ret[t].out_score > -Scale


\* C11: a remove of an id that the store does not hold returns
\* SPEAKER_NOT_FOUND, and no step of that call changes the map, the table or
\* count().
C11_RemoveAbsent ==
    [][\A t \in Threads :
          (Acts(t) /\ call'[t].name = "remove" /\ initialized
             /\ pc[t] \in {"idle", "remove_lock"}
             /\ (pc[t] = "remove_lock" => call[t].id \notin DOMAIN cache))
          => /\ cache' = cache
             /\ db' = db
             /\ get_speaker_count(cache') = get_speaker_count(cache)
             /\ pc[t] = "remove_lock"
                  => pc'[t] = "done" /\ ret'[t].code = "SPEAKER_NOT_FOUND"]_vars

\* C11 witness: a remove has returned SPEAKER_NOT_FOUND over a store that
\* holds another speaker, in the map and in the table.
C11_Witness ==
    \E t \in Threads :
        /\ pc[t] = "done"
        /\ call[t].name = "remove"
        /\ ret[t].code = "SPEAKER_NOT_FOUND"
        /\ cache # EmptyMap
        /\ DOMAIN db = DOMAIN cache


\* a row whose declared dim is the length of its BLOB in floats
Consistent(row) == row.embedding_dim = Len(row.blob)

\* C12 (as claimed): at startup a row whose declared embedding_dim differs
\* from the length of its BLOB is not placed in the map, every consistent row
\* is placed in it, and the initialisation succeeds all the same.
C12_SkipBadRows ==
    /\ ~crashed
    /\ \A t \in Threads :
        (pc[t] = "done" /\ call[t].name = "init" /\ ret[t].code # "ALREADY_INIT"
           /\ ret[t].code # "MODEL_LOAD")
        => /\ ret[t].code = "OK"
           /\ DOMAIN cache = {k \in DOMAIN db : Consistent(db[k])}


\* thread t makes the call named n in this step
Calls(t, n) == pc[t] = "idle" /\ call'[t].name = n

\* C13: the lifecycle alternates: vp_init returns OK only from the
\* uninitialised state, a vp_init on an initialised SDK returns ALREADY_INIT
\* and leaves the session as it is, vp_release leaves the SDK uninitialised,
\* and from there vp_init with a model_dir that holds the models succeeds.
C13_LifecycleAlternates ==
    [][/\ initialized' # initialized
          => \E t \in Threads : Calls(t, "init") \/ Calls(t, "release")
       /\ \A t \in Threads :
          /\ Calls(t, "init") =>
                /\ ret'[t].code = "OK" => ~initialized /\ initialized'
                /\ initialized =>
                      /\ ret'[t].code = "ALREADY_INIT"
                      /\ UNCHANGED <<initialized, cache, db, threshold>>
                /\ (~initialized /\ call'[t].audio = "models") =>
                      ret'[t].code = "OK" /\ initialized'
          /\ Calls(t, "release") => ~initialized']_vars

\* C13 witness: after a session that enrolled a speaker and a release, vp_init
\* has succeeded again and found the speaker.
C13_Witness ==
    \E t \in Threads :
        /\ pc[t] = "done"
        /\ call[t].name = "init"
        /\ ret[t].code = "OK"
        /\ initialized
        /\ cache # EmptyMap


\* the calls on the speaker store
StoreCalls == {"enroll", "remove", "identify", "verify", "count"}

\* C14: while the SDK is not initialised (never initialised, after a failed
\* vp_init, after vp_release), each of vp_enroll, vp_remove_speaker,
\* vp_identify, vp_verify and vp_get_speaker_count returns NOT_INIT at once and
\* changes nothing of the store.
C14_NotInit ==
    [][\A t \in Threads :
          (~initialized /\ \E n \in StoreCalls : Calls(t, n))
          => /\ pc'[t] = "done"
             /\ ret'[t].code = "NOT_INIT"
             /\ UNCHANGED <<initialized, cache, db, threshold, writer, readers>>]_vars

\* C14 witness: after a session that enrolled a speaker was released, an
\* identify has returned NOT_INIT.
C14_Witness ==
    \E t \in Threads :
        /\ pc[t] = "done"
        /\ call[t].name = "identify"
        /\ ret[t].code = "NOT_INIT"
        /\ db # EmptyMap
        /\ released # EmptyMap


\* C15 (as claimed): vp_release never destroys the manager while another
\* thread is inside vp_enroll, vp_identify, vp_verify or vp_remove_speaker: no
\* thread is ever left inside a destroyed manager, and a call that overlaps a
\* release completes against the live manager or returns NOT_INIT.
C15_ReleaseThreadSafe ==
    /\ ~crashed
    /\ \A t \in Threads : pc[t] # "dangling"


\* the public calls that take audio samples
AudioCalls == {"enroll", "identify", "verify", "analyze", "diarize"}

\* what the call named n needs to have been set up
Ready(n) ==
    /\ initialized
    /\ n = "analyze" => analyzer
    /\ n = "diarize" => diarizer

\* C16 (as claimed): every public call that takes audio samples fails with
\* INVALID_PARAM when it is given 0 samples.
C16_Original ==
    \A t \in Threads :
        (pc[t] = "done" /\ call[t].name \in AudioCalls /\ call[t].audio = "null")
        => ret[t].code = "INVALID_PARAM"

\* C16 (amended): on an initialised SDK (for analyze and diarize: with the
\* analyzer or diarizer set up by vp_init_analyzer), every public call that
\* takes audio samples fails with INVALID_PARAM when it is given 0 samples.
C16_ZeroSamples ==
    [][\A t \in Threads : \A n \in AudioCalls :
          (Calls(t, n) /\ call'[t].audio = "null" /\ Ready(n))
          => pc'[t] = "done" /\ ret'[t].code = "INVALID_PARAM"]_vars

\* C16 witness: a diarize given 0 samples has returned INVALID_PARAM.
C16_Witness ==
    \E t \in Threads :
        /\ pc[t] = "done"
        /\ call[t].name = "diarize"
        /\ call[t].audio = "null"
        /\ ret[t].code = "INVALID_PARAM"
        /\ cache # EmptyMap


\* C17: when vp_identify finds a match whose id and terminator do not fit in
\* the id_buf_size bytes of the caller's buffer it returns BUFFER_TOO_SMALL, and
\* only then; whatever it returns it writes within the first id_buf_size bytes
\* only; and an id that fits is written whole, followed by NUL.
C17_BufferBound ==
    [][\A t \in Threads :
          (Acts(t) /\ call'[t].name = "identify") =>
            LET b == out_buf'[t]
                id == ret'[t].out_id
            IN  /\ b.written \subseteq 0..(b.size - 1)
                /\ (EndsScan(t) /\ loc[t].best_id # EmptyId
                      /\ loc[t].best_score >= threshold)
                     => (ret'[t].code = "BUFFER_TOO_SMALL"
                           <=> IdLen(loc[t].best_id) + 1 > b.size)
                /\ ret'[t].code = "BUFFER_TOO_SMALL" => EndsScan(t)
                /\ (pc'[t] = "done" /\ ret'[t].code = "OK")
                     => /\ IdLen(id) + 1 <= b.size
                        /\ SubSeq(b.bytes, 1, IdLen(id)) = IdStr(id)
                        /\ b.bytes[IdLen(id) + 1] = Nul]_vars

\* C17 witness: an identify that matched the two-character id into a buffer
\* of two bytes has returned BUFFER_TOO_SMALL.
C17_Witness ==
    \E t \in Threads :
        /\ pc[t] = "done"
        /\ call[t].name = "identify"
        /\ ret[t].code = "BUFFER_TOO_SMALL"
        /\ IdLen(loc[t].best_id) = out_buf[t].size
        /\ out_buf[t].written = {}


\* C18 (as claimed): the text a thread reads with vp_get_last_error after its
\* own failing call is the detail that call produced; a failure of another
\* thread at the same time neither replaces it nor leaks into it.
C18_LastErrorOwn ==
    \A t \in Threads :
        (pc[t] = "done" /\ call[t].name = "verify"
           /\ ret[t].code = "SPEAKER_NOT_FOUND")
        => vp_get_last_error(t) = NotFoundText(call[t].id)


\* C19: whatever probabilities the inference steps return, the list detect
\* returns is sorted by start_sample, every segment has end_sample >
\* start_sample and lies within the audio buffer, segments do not overlap,
\* and adjacent segments are at least min_silence_samples apart.
C19_SegmentsOrdered ==
    run.status = "returned" =>
        LET s == run.segments
        IN  /\ \A i \in 1..Len(s) :
                  /\ 0 <= s[i].start_sample
                  /\ s[i].start_sample < s[i].end_sample
                  /\ s[i].end_sample <= run.audio_size
            /\ \A i \in 1..(Len(s) - 1) :
                  /\ s[i].start_sample <= s[i + 1].start_sample
                  /\ s[i].end_sample <= s[i + 1].start_sample
                  /\ s[i + 1].start_sample - s[i].end_sample
                         >= min_silence_samples(run.sample_rate)

\* detect returned two segments, the second one closed by the end of the audio
C19_Witness ==
    /\ run.status = "returned"
    /\ Len(run.segments) >= 2
    /\ run.segments[Len(run.segments)].end_sample = run.audio_size

\* C20: when the model is not initialised, or an inference step fails in the
\* middle of detect, detect returns an empty list with last_error set, and
\* nothing is thrown at the caller.
C20_FailureReturnsEmpty ==
    run.failure # "" =>
        /\ run.status = "returned"
        /\ run.segments = <<>>
        /\ vad.last_error_ # ""


\* every two of the embeddings are farther apart than the threshold
MutuallyApart(embeddings, threshold_) ==
    \A i, j \in 1..Len(embeddings) :
        i # j => cosine_dist(embeddings[i], embeddings[j]) > threshold_

\* C21: with max_clusters = m > 0 and more than m inputs that are mutually
\* farther apart than the threshold, clustering merges the closest pairs
\* until exactly m clusters remain.
C21_MaxClusters ==
    (/\ clu.status = "returned"
     /\ clu.max_clusters > 0
     /\ Len(clu.embeddings) > clu.max_clusters
     /\ MutuallyApart(clu.embeddings, clu.threshold))
    => clu.result.num_clusters = clu.max_clusters

\* C22: agglomerative_cluster on N >= 1 embeddings ends (each pass of the loop
\* leaves one active cluster fewer, and at least one), with exactly N labels,
\* each in 0..num_clusters-1, and each value of 0..num_clusters-1 in use.
C22_LabelsCompact ==
    /\ clu.status = "loop" =>
          /\ clu.num_active >= 1
          /\ clu.num_active =
                 Cardinality({i \in 1..Len(clu.active) : clu.active[i]})
          /\ clu.num_active > 1 => ActivePairs(clu) # {}
    /\ clu.status = "returned" =>
          LET labels == clu.result.labels
              K == clu.result.num_clusters
          IN  /\ Len(labels) = Len(clu.embeddings)
              /\ \A i \in 1..Len(labels) : labels[i] \in 0..(K - 1)
              /\ \A k \in 0..(K - 1) : \E i \in 1..Len(labels) : labels[i] = k

\* three inputs, the first two merged: the loop's labels were 0, 0, 2
C22_Witness ==
    /\ clu.status = "returned"
    /\ Len(clu.embeddings) = 3
    /\ clu.result.labels = <<0, 0, 1>>
    /\ clu.result.num_clusters = 2


\* the VAD segments that last at least 0.5 s
LongEnough(segments) ==
    {j \in 1..Len(segments) :
        ~SegTooShort(segments[j].end_sample - segments[j].start_sample)}

\* C23: for any input and any max_out > 0, diarize writes at most max_out
\* output segments, reports as count exactly the number written, and the
\* written segments are in the order of their VAD segments (non-decreasing
\* start time).
C23_OutputBounded ==
    (dia.status \in {"returned", "threw"} /\ dia.max_segments > 0) =>
        LET out == dia.out_segments
        IN  /\ Len(out) <= dia.max_segments
            /\ dia.out_count = Len(out)
            /\ \A k \in 1..(Len(out) - 1) : out[k].start_sec <= out[k + 1].start_sec
            /\ \A k \in 1..Len(out) :
                  \E j \in 1..Len(dia.segments) :
                      /\ out[k].start_sec = (dia.segments[j].start_sample * Scale) \div SR
                      /\ out[k].end_sec = (dia.segments[j].end_sample * Scale) \div SR
                      /\ k <= j
                      /\ \A l \in 1..(k - 1) :
                            out[l].start_sec < out[k].start_sec

\* more segments were embedded than out_segments holds, and it was filled
C23_Witness ==
    /\ dia.status = "returned"
    /\ Len(dia.segs_with_emb) > dia.max_segments
    /\ dia.max_segments >= 2
    /\ dia.out_count = dia.max_segments

\* C24: diarize drops exactly the VAD segments shorter than 0.5 s: every
\* segment of at least 0.5 s is embedded, clustered and, capacity permitting,
\* written as an output segment.
C24_DropsOnlyShort ==
    (dia.status = "returned" /\ dia.code = "OK") =>
        /\ \A j \in 1..Len(dia.segments) :
              j \in LongEnough(dia.segments)
              <=> \E k \in 1..Len(dia.segs_with_emb) :
                      dia.segs_with_emb[k].start_sample = dia.segments[j].start_sample
        /\ dia.out_count =
               Min2(Cardinality(LongEnough(dia.segments)), dia.max_segments)


\* C25: an analyzer initialised with the Emotion flag while the emotion model
\* file is absent has the Emotion bit clear in loaded_features (and the
\* initialisation returned Ok), and every later vp_get_emotion returns
\* ModelNotAvailable.
C25_EmotionMissing ==
    (/\ ana.initialized_
     /\ "EMOTION" \in ana.init_flags
     /\ "emotion.onnx" \notin ana.files) =>
        /\ "EMOTION" \notin ana.loaded_features_
        /\ ana.api = "get_emotion" => ana.code = "MODEL_NOT_AVAILABLE"

\* the sub-step of feature f completed successfully
Succeeded(a, f) ==
    /\ f \in FbankFeatures => a.fbank_ok
    /\ f \in NeuralFeatures => ModelOf(f) \in a.models /\ ModelOf(f) \notin a.failed

\* C26: after analyze returns, a bit is set in features_computed if and only
\* if that feature was requested and its sub-step completed successfully; a
\* missing model or a failed inference leaves the bit clear.
C26_ComputedBits ==
    (ana.api = "analyze" /\ ana.code = "OK") =>
        \A f \in Features :
            f \in ana.features_computed
            <=> (f \in ana.feature_flags /\ Succeeded(ana, f))


\* C27: every write to the persistent table made by enroll or remove is made
\* while the calling thread holds cache_mutex_ exclusively.
C27_TableWriteLocked ==
    [][db' # db => \E t \in Threads : Acts(t) /\ writer = t]_vars

\* no enroll or remove is in progress
Quiescent == \A t \in Threads : pc[t] \notin EnrollPcs \cup RemovePcs

\* C28: whatever the interleaving of concurrent enroll and remove calls,
\* whenever none is in progress the in-memory map and the persistent table
\* hold the same ids with the same enroll_count each.
C28_MapMatchesTable ==
    (initialized /\ Quiescent) =>
        /\ DOMAIN cache = DOMAIN db
        /\ \A id \in DOMAIN cache : LoadRow(db[id]).enroll_count = cache[id].enroll_count

\* C30: a remove(id) that returns DB_ERROR leaves the store as it was before
\* the call: id is still in the in-memory map.
C30_FailedRemoveKeeps ==
    \A t \in Threads :
        (pc[t] = "done" /\ call[t].name = "remove" /\ ret[t].code = "DB_ERROR")
        => call[t].id \in DOMAIN cache


\* C29: within one detect call the hidden state fed to window k+1 is exactly
\* the state returned for window k of that call, starting from zero, also
\* while other threads run detect on the same detector.
C29_StateChained ==
    \A t \in Threads :
        hid.th[t].status = "copy" => hid.th[t].fed = hid.th[t].own

=============================================================================
